---- MODULE Spec2Model ----
(***************************************************************************)
(* Model of the ModUploader main process and the renderer paths that feed  *)
(* it: the Steam client lifecycle (steam.ts), the IPC handlers             *)
(* (ipc-handlers.ts), the ModEditor / ModList submit paths and the         *)
(* preview image compressor (image-utils).                                 *)
(*                                                                         *)
(* JavaScript runs one task at a time.  A handler runs without             *)
(* interruption up to its next await; promise reactions are microtasks     *)
(* that run, in registration order, before the next task (IPC invocation,  *)
(* timer, SDK completion) is taken.  The variable microtasks is that       *)
(* queue and every task action is guarded by microtasks = <<>>.            *)
(*                                                                         *)
(* Strings are sequences of tokens: " " is a whitespace character, every   *)
(* other token is a non-whitespace character or word.  undefined and ""    *)
(* are both the empty sequence: the code only tests them for truthiness.   *)
(***************************************************************************)
EXTENDS Integers, Sequences, FiniteSets, TLC

\* ---------------------------------------------------------------- bounds
MaxCalls == 2          \* invocations in progress at once, with the plain form (Spec)
MaxFormCalls == 1      \* invocations in progress at once, with every form (SpecForm)
MaxItems == 1          \* distinct workshop ids the SDK hands out
MaxListLen == 1        \* longest item list the SDK query returns
FirstItemId == 10      \* the smallest workshop id the SDK hands out
SizeSlack == 1         \* file and JPEG sizes range over MAX_FILE_SIZE -+ SizeSlack
MaxNameLen == 4        \* longest name given to formatModName
MaxUgcCode == 5        \* visibility codes range over -1 .. MaxUgcCode
MaxNesting == 2        \* deepest object nested in a metadata object literal
MaxDeclaredTags == 2   \* most tags a metadata object literal declares
MaxEntries == 3        \* most entries an archive holds
MaxClock == 2          \* distinct values of Date.now() in temp file names

\* ------------------------------------------------------ program constants
steamInitMaxRetries == 5
MaxTitleLen == 128
MaxDescriptionLen == 8000
MAX_FILE_SIZE == 1048576
MIN_QUALITY == 10
QUALITY_STEP == 5
FirstQuality == 95       \* compressPreviewImage: let quality = 95
ResizedQuality == 85     \* compressPreviewImage: quality = 85 after the 70% resize

ItemIds == FirstItemId .. (FirstItemId + MaxItems - 1)
CallIds == 1 .. (IF MaxCalls > MaxFormCalls THEN MaxCalls ELSE MaxFormCalls)

\* ------------------------------------------------------------ JS helpers
Falsy(s) == s = <<>>
Truthy(s) == s # <<>>

IsSpace(ch) == ch = " "

RECURSIVE TrimStart(_)
TrimStart(s) ==
  IF s # <<>> /\ IsSpace(Head(s)) THEN TrimStart(Tail(s)) ELSE s

RECURSIVE TrimEnd(_)
TrimEnd(s) ==
  IF s # <<>> /\ IsSpace(s[Len(s)]) THEN TrimEnd(SubSeq(s, 1, Len(s) - 1)) ELSE s

\* String.prototype.trim
Trim(s) == TrimEnd(TrimStart(s))

Digits == <<"0", "1", "2", "3", "4", "5", "6", "7", "8", "9">>
DigitChars == {Digits[i] : i \in 1..10}
DigitVal(ch) == (CHOOSE i \in 1..10 : Digits[i] = ch) - 1

\* BigInt.prototype.toString: canonical decimal digits
RECURSIVE BigIntToString(_)
BigIntToString(n) ==
  IF n < 10 THEN <<Digits[n + 1]>>
  ELSE Append(BigIntToString(n \div 10), Digits[(n % 10) + 1])

\* BigInt(string): throws a SyntaxError on a non-numeric string
BigIntThrows(s) == \E i \in 1..Len(s) : s[i] \notin DigitChars

RECURSIVE BigIntOf(_)
BigIntOf(s) ==
  IF s = <<>> THEN 0
  ELSE BigIntOf(SubSeq(s, 1, Len(s) - 1)) * 10 + DigitVal(s[Len(s)])

\* ------------------------------------------------------------- messages
\* String.prototype.toLowerCase, word by word: the words of the messages that
\* have a capital letter, and what they become
Lowered ==
  [w \in {"User", "Not", "Logged", "On", "Steam", "Open", "Please", "Generic", "No",
          "Workshop", "API", "Upload", "Cannot", "BigInt"} |->
     CASE w = "User" -> "user" [] w = "Not" -> "not" [] w = "Logged" -> "logged"
       [] w = "On" -> "on" [] w = "Steam" -> "steam" [] w = "Open" -> "open"
       [] w = "Please" -> "please" [] w = "Generic" -> "generic" [] w = "No" -> "no"
       [] w = "Workshop" -> "workshop" [] w = "API" -> "api" [] w = "Upload" -> "upload"
       [] w = "Cannot" -> "cannot" [] OTHER -> "bigint"]
ToLowerWord(w) == IF w \in DOMAIN Lowered THEN Lowered[w] ELSE w

ToLowerCase(s) == [i \in 1..Len(s) |-> ToLowerWord(s[i])]

\* String.prototype.includes
Includes(s, sub) ==
  \E i \in 0..(Len(s) - Len(sub)) : SubSeq(s, i + 1, i + Len(sub)) = sub

\* Messages are sequences of words and punctuation marks.
NotConnectedMsg ==
  <<"Steam", "is", "not", "connected", ".", "Please", "make", "sure", "Steam", "is",
    "running", "and", "logged", "in", ".">>
NotLoggedInMsg ==
  <<"Steam", "user", "is", "not", "logged", "in", ".", "Open", "Steam", "and",
    "sign", "in", "to", "the", "account", "that", "owns", "the", "game", ",",
    "then", "retry", ".">>
AuthPhraseOn == <<"user", "not", "logged", "on">>
AuthPhraseIn == <<"not", "logged", "in">>
NoQueryMethodMsg ==
  <<"No", "compatible", "Steam", "Workshop", "query", "method", "available">>
ApiUnavailableMsg ==
  <<"Workshop", "API", "is", "currently", "unavailable", ".", "Upload", "functionality",
    "still", "works", ".">>
NoItemsMsg ==
  <<"No", "workshop", "items", "found", ".", "Upload", "your", "first", "mod", "!">>

\* messages the SDK may throw
SdkAuthError == <<"User", "Not", "Logged", "On">>
SdkOtherError == <<"Generic", "failure">>
SdkErrors == {SdkAuthError, SdkOtherError}


isSteamAuthError(errorMessage) ==
  LET message == ToLowerCase(errorMessage) IN
    Includes(message, AuthPhraseOn) \/ Includes(message, AuthPhraseIn)

\* the message of the Error normalizeWorkshopError returns
normalizeWorkshopError(errorMessage) ==
  IF isSteamAuthError(errorMessage) THEN NotLoggedInMsg ELSE errorMessage

\* ------------------------------------------------------------ visibility
UgcItemVisibility == [Public |-> 0, FriendsOnly |-> 1, Private |-> 2, Unlisted |-> 3]

visibilityToUgcVisibility(visibility) ==
  CASE visibility = "public" -> UgcItemVisibility.Public
    [] visibility = "friends" -> UgcItemVisibility.FriendsOnly
    [] visibility = "private" -> UgcItemVisibility.Private
    [] visibility = "unlisted" -> UgcItemVisibility.Unlisted
    [] OTHER -> UgcItemVisibility.Private

\* fault: an unknown code is shown as public
ugcVisibilityToStringOpen(visibility) ==
  CASE visibility = UgcItemVisibility.Public -> "public"
    [] visibility = UgcItemVisibility.FriendsOnly -> "friends"
    [] visibility = UgcItemVisibility.Private -> "private"
    [] visibility = UgcItemVisibility.Unlisted -> "unlisted"
    [] OTHER -> "public"

ugcVisibilityToString(visibility) ==
  CASE visibility = UgcItemVisibility.Public -> "public"
    [] visibility = UgcItemVisibility.FriendsOnly -> "friends"
    [] visibility = UgcItemVisibility.Private -> "private"
    [] visibility = UgcItemVisibility.Unlisted -> "unlisted"
    [] OTHER -> "private"

\* ---------------------------------------------------------------- state
VARIABLES
  steamClient,            \* steam.ts steamClient: "null" or "client"
  steamInitialized,       \* steam.ts steamInitialized
  initializationPromise,  \* 0 (null) or the id of the call whose doInitializeSteam made it
  seqs,                   \* per owning call: the doInitializeSteam sequence it started
  waiters,                \* per sequence: the calls awaiting its promise, in order
  microtasks,             \* queued promise reactions (call ids), FIFO
  calls,                  \* the IPC invocations in progress
  startupDone,            \* index.ts: the start-up timer has fired
  workshopItems,          \* ModList state: the items of the last listing
  files,                  \* the file system: path -> size in bytes, or Absent
  img,                    \* the compressPreviewImage call in progress
  outputs,                \* the compressedPath of every successful compression so far
  clock,                  \* Date.now(), as the number of the latest temp file name
  encodeTrip,             \* a visibility string, its UGC code and that code's string
  decodeTrip,             \* a UGC code, its visibility string and that string's code
  naming,                 \* a name and the title formatModName makes of it
  parsing,                \* a metadata object literal and what each syntax's mod.js parses to
  zip,                    \* the extractModMetadata call in progress
  allowedFilePaths,       \* ipc-handlers.ts allowedFilePaths: resolved paths
  granted,                \* the paths the dialogs returned and the compressions put out
  reading                 \* the latest 'read-file-base64' call

steamVars == <<steamClient, steamInitialized, initializationPromise, seqs, waiters,
               microtasks, calls, startupDone,
               workshopItems>>
imageVars == <<files, img, outputs, clock>>
visibilityVars == <<encodeTrip, decodeTrip>>

\* what the actions of one part of the program leave alone
parserVars == <<naming, parsing, zip>>
fileVars == <<allowedFilePaths, granted, reading>>
nonSteamVars == <<imageVars, visibilityVars, parserVars, fileVars>>
nonImageVars == <<steamVars, visibilityVars, parserVars, fileVars>>
nonVisibilityVars == <<steamVars, imageVars, parserVars, fileVars>>
nonParserVars == <<steamVars, imageVars, visibilityVars, fileVars>>
nonFileVars == <<steamVars, imageVars, visibilityVars, parserVars>>

\* no path is whitelisted and nothing was read
NoGrants == [zip |-> {}, image |-> {}, compressed |-> {}]
NoRead == [pc |-> "idle", filePath |-> <<>>, didRead |-> FALSE, result |-> "none"]
FilesIdle == allowedFilePaths = {} /\ granted = NoGrants /\ reading = NoRead

\* one run of doInitializeSteam; notifications: the 'steam-initialized'
\* messages it sent; sawWindow: it found a window that is not destroyed
NoSeq == [status |-> "none", attempt |-> 0, result |-> FALSE, notifications |-> 0,
          sawWindow |-> FALSE]

NoData == [workshopId |-> <<>>, zipPath |-> <<>>, title |-> <<>>,
           description |-> <<>>, tags |-> <<>>, visibility |-> "",
           previewImagePath |-> <<>>, changeNotes |-> <<>>]

NoDetails == [title |-> <<>>, description |-> <<>>, hasTags |-> FALSE, tags |-> <<>>,
              visibility |-> -1, contentPath |-> <<>>, previewPath |-> <<>>,
              changeNote |-> <<>>]

NoResult == [outcome |-> "none", success |-> FALSE, publishedFileId |-> <<>>,
             error |-> <<>>, items |-> <<>>, status |-> "", message |-> <<>>,
             connected |-> FALSE]

\* ensured: how ensureSteamClientReady ended for the call: "none" before it
\* ends and for calls that do not use it, "initFailed", "notReady",
\* "probeAuthFailed" (the probe threw an authentication error), "probeFailed"
\* (the probe threw another error) or "ready".  previewExists: what
\* fs.existsSync(previewImagePath) returned.  sdkErrors: the messages of the
\* workshop calls of the request that failed, in order.  overlayCalls,
\* overlayThrew: calls of overlay.activateToWebPage, and whether it threw.
FreeCall == [kind |-> "none", pc |-> "free", seq |-> 0, joined |-> FALSE,
             ensured |-> "none", data |-> NoData, details |-> NoDetails,
             previewExists |-> FALSE, sdkErrors |-> <<>>,
             createCalls |-> 0, updateCalls |-> 0, deleteCalls |-> 0,
             modernCalls |-> 0, legacyCalls |-> 0,
             overlayCalls |-> 0, overlayThrew |-> FALSE,
             createdId |-> -1, updateTarget |-> -1, deleteTarget |-> -1,
             publishedFileId |-> <<>>, result |-> NoResult]

SteamInit ==
  /\ steamClient = "null"
  /\ steamInitialized = FALSE
  /\ initializationPromise = 0
  /\ seqs = [c \in CallIds |-> NoSeq]
  /\ waiters = [c \in CallIds |-> <<>>]
  /\ microtasks = <<>>
  /\ calls = [c \in CallIds |-> FreeCall]
  /\ startupDone = FALSE
  /\ workshopItems = <<>>

\* --------------------------------------------------- steam.ts lifecycle
InitOutcomes == {"handle", "null", "throw"}

\* fault: the loop sleeps and tries once more after the last attempt
AttemptEffectExtraRetry(o, a) ==
  CASE o = "handle" ->
         [client |-> "client", initialized |-> TRUE,
          status |-> "resolved", result |-> TRUE]
    [] o = "null" ->
         [client |-> "null", initialized |-> steamInitialized,
          status |-> IF a <= steamInitMaxRetries THEN "sleeping" ELSE "resolved",
          result |-> FALSE]
    [] OTHER ->
         [client |-> steamClient, initialized |-> steamInitialized,
          status |-> IF a <= steamInitMaxRetries THEN "sleeping" ELSE "resolved",
          result |-> FALSE]

\* One pass of the retry loop of doInitializeSteam: attempt number a, with the
\* SDK's init() returning a handle, returning null or throwing.
AttemptEffect(o, a) ==
  CASE o = "handle" ->
         [client |-> "client", initialized |-> TRUE,
          status |-> "resolved", result |-> TRUE]
    [] o = "null" ->
         [client |-> "null", initialized |-> steamInitialized,
          status |-> IF a < steamInitMaxRetries THEN "sleeping" ELSE "resolved",
          result |-> FALSE]
    [] OTHER ->
         [client |-> steamClient, initialized |-> steamInitialized,
          status |-> IF a < steamInitMaxRetries THEN "sleeping" ELSE "resolved",
          result |-> FALSE]

\* mainWindow && !mainWindow.isDestroyed(), which is read only after init()
\* returned a handle
WindowStates(o) == IF o = "handle" THEN BOOLEAN ELSE {FALSE}

\* fault: the notification is sent on every attempt, whatever init() gave
RunAttemptAlwaysNotifies(s, a, o, windowAlive) ==
  LET e == AttemptEffect(o, a) IN
    /\ steamClient' = e.client
    /\ steamInitialized' = e.initialized
    /\ seqs' = [seqs EXCEPT ![s] =
                  [status |-> e.status, attempt |-> a, result |-> e.result,
                   notifications |-> seqs[s].notifications + 1,
                   sawWindow |-> windowAlive]]

\* doInitializeSteam from the top of attempt a up to its next await or return
RunAttempt(s, a, o, windowAlive) ==
  LET e == AttemptEffect(o, a) IN
    /\ steamClient' = e.client
    /\ steamInitialized' = e.initialized
    /\ seqs' = [seqs EXCEPT ![s] =
                  [status |-> e.status, attempt |-> a, result |-> e.result,
                   notifications |-> seqs[s].notifications
                                     + (IF o = "handle" /\ windowAlive THEN 1 ELSE 0),
                   sawWindow |-> windowAlive]]


\* ensureSteamClientReady / get-steam-status: is an initialization needed?
NeedsInit == steamClient = "null" \/ ~steamInitialized

\* fault: initializeSteam without the check of initializationPromise
initializeSteamUnguarded(c) ==
  \E o \in InitOutcomes : \E windowAlive \in WindowStates(o) :
    /\ RunAttempt(c, 1, o, windowAlive)
    /\ initializationPromise' = c
    /\ IF AttemptEffect(o, 1).status = "resolved"
       THEN microtasks' = Append(microtasks, c) /\ UNCHANGED waiters
       ELSE waiters' = [waiters EXCEPT ![c] = <<c>>] /\ UNCHANGED microtasks

\* initializeSteam as called by call c: join the promise in flight, or start
\* doInitializeSteam and run it up to its first await.
initializeSteam(c) ==
  IF initializationPromise # 0
  THEN /\ UNCHANGED <<steamClient, steamInitialized, seqs, initializationPromise>>
       /\ IF seqs[initializationPromise].status = "resolved"
          THEN microtasks' = Append(microtasks, c) /\ UNCHANGED waiters
          ELSE /\ waiters' = [waiters EXCEPT ![initializationPromise] = Append(@, c)]
               /\ UNCHANGED microtasks
  ELSE \E o \in InitOutcomes : \E windowAlive \in WindowStates(o) :
         /\ RunAttempt(c, 1, o, windowAlive)
         /\ initializationPromise' = c
         /\ IF AttemptEffect(o, 1).status = "resolved"
            THEN microtasks' = Append(microtasks, c) /\ UNCHANGED waiters
            ELSE waiters' = [waiters EXCEPT ![c] = <<c>>] /\ UNCHANGED microtasks

\* the call record of c once it awaits initializeSteam
AwaitingInit(c, rec) ==
  [rec EXCEPT !.pc = "awaitInit",
              !.seq = IF initializationPromise # 0 THEN initializationPromise ELSE c,
              !.joined = initializationPromise # 0]

\* --------------------------------------------------- handler outcomes
Returned(rec, res) == [rec EXCEPT !.pc = "done", !.result = [res EXCEPT !.outcome = "returned"]]
Threw(rec, msg) ==
  [rec EXCEPT !.pc = "done", !.result = [NoResult EXCEPT !.outcome = "threw", !.error = msg]]

\* String.prototype.split(',') followed by map(trim) and filter(non-empty)
RECURSIVE SplitTags(_, _)
SplitTags(s, cur) ==
  IF s = <<>> THEN (IF Trim(cur) # <<>> THEN <<Trim(cur)>> ELSE <<>>)
  ELSE IF Head(s) = ","
       THEN (IF Trim(cur) # <<>> THEN <<Trim(cur)>> ELSE <<>>) \o SplitTags(Tail(s), <<>>)
       ELSE SplitTags(Tail(s), Append(cur, Head(s)))

\* fault: the preview path is copied whether or not the file exists
BuildUpdateDetailsUncheckedPreview(data, previewExists) ==
  [title |-> IF Truthy(data.title) THEN data.title ELSE <<>>,
   description |-> IF Truthy(data.description) THEN data.description ELSE <<>>,
   hasTags |-> Truthy(data.tags),
   tags |-> IF Truthy(data.tags) THEN SplitTags(data.tags, <<>>) ELSE <<>>,
   visibility |-> visibilityToUgcVisibility(IF data.visibility # "" THEN data.visibility ELSE "private"),
   contentPath |-> IF Truthy(data.zipPath) THEN data.zipPath ELSE <<>>,
   previewPath |-> IF Truthy(data.previewImagePath) THEN data.previewImagePath ELSE <<>>,
   changeNote |-> IF Truthy(data.changeNotes) THEN data.changeNotes ELSE <<>>]

\* upload-to-workshop: the update descriptor built from modData
BuildUpdateDetails(data, previewExists) ==
  [title |-> IF Truthy(data.title) THEN data.title ELSE <<>>,
   description |-> IF Truthy(data.description) THEN data.description ELSE <<>>,
   hasTags |-> Truthy(data.tags),
   tags |-> IF Truthy(data.tags) THEN SplitTags(data.tags, <<>>) ELSE <<>>,
   visibility |-> visibilityToUgcVisibility(IF data.visibility # "" THEN data.visibility ELSE "private"),
   contentPath |-> IF Truthy(data.zipPath) THEN data.zipPath ELSE <<>>,
   previewPath |-> IF Truthy(data.previewImagePath) /\ previewExists
                   THEN data.previewImagePath ELSE <<>>,
   changeNote |-> IF Truthy(data.changeNotes) THEN data.changeNotes ELSE <<>>]

SyntaxErrorMsg == <<"Cannot", "convert", "to", "a", "BigInt">>

\* fault: the item is created whether or not the record has a workshopId
UploadBodyAlwaysCreates(rec, in) ==
  [rec EXCEPT !.details = BuildUpdateDetails(rec.data, in.previewExists),
              !.pc = "awaitCreate", !.createCalls = @ + 1]

\* upload-to-workshop from after ensureSteamClientReady up to its first SDK call
UploadBody(rec, in) ==
  LET d == BuildUpdateDetails(rec.data, in.previewExists)
      withDetails == [rec EXCEPT !.details = d, !.previewExists = in.previewExists] IN
    IF Falsy(rec.data.workshopId)
    THEN [withDetails EXCEPT !.pc = "awaitCreate", !.createCalls = @ + 1]
    ELSE IF BigIntThrows(rec.data.workshopId)
         THEN Threw([withDetails EXCEPT !.publishedFileId = rec.data.workshopId],
                    normalizeWorkshopError(SyntaxErrorMsg))
         ELSE [withDetails EXCEPT !.pc = "awaitUpdate",
                                  !.publishedFileId = rec.data.workshopId,
                                  !.updateTarget = BigIntOf(rec.data.workshopId),
                                  !.updateCalls = @ + 1]

\* get-workshop-items: the catch block around the query
ListFailed(rec, msg) ==
  LET normalized == normalizeWorkshopError(msg) IN
    IF isSteamAuthError(normalized)
    THEN Returned(rec, [NoResult EXCEPT !.status = "steam_not_connected",
                                        !.message = normalized])
    ELSE Returned(rec, [NoResult EXCEPT !.status = "error",
                                        !.message = ApiUnavailableMsg])

\* queryWorkshopItemsWithCompatibility up to its first await
ListBody(rec, in) ==
  IF in.getSteamIdError # <<>> THEN ListFailed(rec, in.getSteamIdError)
  ELSE IF ~in.hasGetUserItems THEN ListFailed(rec, NoQueryMethodMsg)
  ELSE [rec EXCEPT !.pc = "awaitModern", !.modernCalls = @ + 1]

\* delete-workshop-item from after ensureSteamClientReady up to the SDK call
DeleteBody(rec) ==
  IF BigIntThrows(rec.data.workshopId)
  THEN Returned(rec, [NoResult EXCEPT !.success = FALSE,
                                      !.error = normalizeWorkshopError(SyntaxErrorMsg)])
  ELSE [rec EXCEPT !.pc = "awaitDelete",
                   !.deleteTarget = BigIntOf(rec.data.workshopId),
                   !.deleteCalls = @ + 1]

\* fault: no handler catches what ensureSteamClientReady throws
EnsureFailedRethrows(rec, msg) == Threw(rec, normalizeWorkshopError(msg))

\* what each handler does when ensureSteamClientReady throws msg
EnsureFailed(rec, msg) ==
  CASE rec.kind = "upload" -> Threw(rec, normalizeWorkshopError(msg))
    [] rec.kind = "list" ->
         Returned(rec, [NoResult EXCEPT !.status = "steam_not_connected",
                                        !.message = normalizeWorkshopError(msg)])
    [] OTHER ->
         Returned(rec, [NoResult EXCEPT !.success = FALSE,
                                        !.error = normalizeWorkshopError(msg)])

HandlerBody(rec, in) ==
  CASE rec.kind = "upload" -> UploadBody(rec, in)
    [] rec.kind = "list" -> ListBody(rec, in)
    [] OTHER -> DeleteBody(rec)

\* fault: the handler goes on after the liveness probe threw
ProbeAndRunIgnoresProbe(rec, in, client, initialized) ==
  IF client = "null" \/ ~initialized
  THEN EnsureFailed([rec EXCEPT !.ensured = "notReady"], NotConnectedMsg)
  ELSE IF in.probeError # <<>>
       THEN HandlerBody([rec EXCEPT !.ensured = IF isSteamAuthError(in.probeError)
                                                 THEN "probeAuthFailed"
                                                 ELSE "probeFailed"], in)
       ELSE HandlerBody([rec EXCEPT !.ensured = "ready"], in)

\* ensureSteamClientReady lines 104-117: the check and the liveness probe, on
\* the lifecycle state (client, initialized) the caller reads
ProbeAndRun(rec, in, client, initialized) ==
  IF client = "null" \/ ~initialized
  THEN EnsureFailed([rec EXCEPT !.ensured = "notReady"], NotConnectedMsg)
  ELSE IF in.probeError # <<>>
       THEN EnsureFailed([rec EXCEPT !.ensured = IF isSteamAuthError(in.probeError)
                                                  THEN "probeAuthFailed"
                                                  ELSE "probeFailed"],
                         normalizeWorkshopError(in.probeError))
       ELSE HandlerBody([rec EXCEPT !.ensured = "ready"], in)

\* get-steam-status lines 596-610
StatusResult(rec, in, client, initialized) ==
  IF client = "null" \/ ~initialized THEN Returned(rec, NoResult)
  ELSE IF in.probeError # <<>> THEN Returned(rec, NoResult)
  ELSE Returned(rec, [NoResult EXCEPT !.connected = TRUE])

\* the continuation of a call after `await initializeSteam(...)`
AfterInit(rec, initResult, in, client, initialized) ==
  CASE rec.kind = "startup" -> FreeCall   \* index.ts only logs the result
    [] rec.kind = "status" -> StatusResult(rec, in, client, initialized)
    [] OTHER ->
         IF ~initResult
         THEN EnsureFailed([rec EXCEPT !.ensured = "initFailed"], NotConnectedMsg)
         ELSE ProbeAndRun(rec, in, client, initialized)

\* What the environment decides during one synchronous stretch of the handler
\* of rec: what the probe throws, what getSteamId throws in the query, whether
\* the SDK has getUserItems, and what fs.existsSync(previewImagePath) returns
\* (it is called only for a non-empty path).
EnvInputs(rec) ==
  [probeError : {<<>>},
   getSteamIdError : IF rec.kind = "list" THEN {<<>>, SdkOtherError} ELSE {<<>>},
   hasGetUserItems : IF rec.kind = "list" THEN BOOLEAN ELSE {TRUE},
   previewExists : IF rec.kind = "upload" /\ Truthy(rec.data.previewImagePath)
                   THEN BOOLEAN ELSE {FALSE}]
  \cup
  \* a probe that throws ends the handler: nothing else is read
  [probeError : IF rec.kind = "startup" THEN {} ELSE SdkErrors,
   getSteamIdError : {<<>>}, hasGetUserItems : {TRUE}, previewExists : {FALSE}]


\* ------------------------------------------------------- task plumbing
IsFree(c) == calls[c].pc = "free"
\* the slot a new invocation takes, when at most n may be in progress
NextFree(c, n) == c <= n /\ IsFree(c) /\ \A d \in CallIds : d < c => ~IsFree(d)
\* a finished invocation whose reply the renderer has not yet taken
ReplyPending == \E c \in CallIds : calls[c].pc \in {"done", "rejected"}
\* A task is taken when no promise reaction is queued.  The reply of a
\* finished invocation is delivered before the next task: a reply changes only
\* renderer state and the finished call's record, which no main-process step
\* reads, so every schedule is equivalent to one with this order.
TaskReady == microtasks = <<>> /\ ~ReplyPending

\* A handler that starts with ensureSteamClientReady (or get-steam-status,
\* which has the same first lines), from its invocation to its first await.
Begin(c, rec) ==
  IF NeedsInit
  THEN /\ initializeSteam(c)
       /\ calls' = [calls EXCEPT ![c] = AwaitingInit(c, rec)]
  ELSE /\ \E in \in EnvInputs(rec) :
            calls' = [calls EXCEPT ![c] =
                        IF rec.kind = "status"
                        THEN StatusResult(rec, in, steamClient, steamInitialized)
                        ELSE ProbeAndRun(rec, in, steamClient, steamInitialized)]
       /\ UNCHANGED <<steamClient, steamInitialized, initializationPromise, seqs,
                      waiters, microtasks>>

\* index.ts: the start-up timer calls initializeSteam(mainWindow)
StartupInit(n) ==
  /\ UNCHANGED nonSteamVars
  /\ TaskReady
  /\ ~startupDone
  /\ \E c \in CallIds :
       /\ NextFree(c, n)
       /\ initializeSteam(c)
       /\ calls' = [calls EXCEPT ![c] = AwaitingInit(c, [FreeCall EXCEPT !.kind = "startup"])]
  /\ startupDone' = TRUE
  /\ UNCHANGED <<workshopItems>>

\* doInitializeSteam: the sleep between two attempts ends and the next attempt runs
RetryTimer ==
  /\ UNCHANGED nonSteamVars
  /\ TaskReady
  /\ \E s \in CallIds, o \in InitOutcomes :
     \E windowAlive \in WindowStates(o) :
       /\ seqs[s].status = "sleeping"
       /\ RunAttempt(s, seqs[s].attempt + 1, o, windowAlive)
       /\ UNCHANGED calls
       /\ IF AttemptEffect(o, seqs[s].attempt + 1).status = "resolved"
          THEN /\ microtasks' = waiters[s]
               /\ waiters' = [waiters EXCEPT ![s] = <<>>]
          ELSE UNCHANGED <<microtasks, waiters>>
  /\ UNCHANGED <<initializationPromise, startupDone, workshopItems>>

\* The promise reaction of the call at the head of the microtask queue: the
\* rest of initializeSteam (for the call that made the promise) and the
\* caller's code after `await initializeSteam(...)`.
ResumeAfterInit ==
  /\ UNCHANGED nonSteamVars
  /\ microtasks # <<>>
  /\ LET c == Head(microtasks)
         s == calls[c].seq
         rec == [calls[c] EXCEPT !.seq = 0, !.joined = FALSE]
     IN /\ initializationPromise' = IF calls[c].joined THEN initializationPromise ELSE 0
        /\ \E in \in EnvInputs(calls[c]) :
             calls' = [calls EXCEPT ![c] =
                        AfterInit(rec, seqs[s].result, in, steamClient, steamInitialized)]
        /\ seqs' = IF \E i \in 2..Len(microtasks) : calls[microtasks[i]].seq = s
                   THEN seqs ELSE [seqs EXCEPT ![s] = NoSeq]
  /\ microtasks' = Tail(microtasks)
  /\ UNCHANGED <<steamClient, steamInitialized, waiters, startupDone,
                 workshopItems>>


\* ---------------------------------------------------------- SDK results
\* a workshop call of the request rejected with the message e
SdkFailed(rec, e) == [rec EXCEPT !.sdkErrors = Append(@, e)]
\* steamClient.overlay.activateToWebPage was called and returned or threw
ActivateToWebPage(rec, throws) ==
  [rec EXCEPT !.overlayCalls = @ + 1, !.overlayThrew = throws]

SdkCodes == {UgcItemVisibility.Public}
NullItem == [isNull |-> TRUE, publishedFileId |-> 0, visibility |-> 0]
SdkItems ==
  {NullItem} \cup
  {[isNull |-> FALSE, publishedFileId |-> id, visibility |-> v] : id \in ItemIds, v \in SdkCodes}
SdkItemLists == UNION {[1..n -> SdkItems] : n \in 0..MaxListLen}

RECURSIVE FilterNonNull(_)
FilterNonNull(items) ==
  IF items = <<>> THEN <<>>
  ELSE IF Head(items).isNull THEN FilterNonNull(Tail(items))
       ELSE <<Head(items)>> \o FilterNonNull(Tail(items))

\* get-workshop-items lines 489-520: one SDK item as a WorkshopItem
ToWorkshopItem(item) ==
  [publishedFileId |-> BigIntToString(item.publishedFileId),
   title |-> <<"T">>, description |-> <<"D">>, tags |-> <<>>,
   visibility |-> ugcVisibilityToString(item.visibility)]

\* get-workshop-items lines 489-529
ListSucceeded(rec, sdkItems) ==
  LET kept == FilterNonNull(sdkItems)
      items == [i \in 1..Len(kept) |-> ToWorkshopItem(kept[i])] IN
    Returned(rec, [NoResult EXCEPT !.items = items, !.status = "success",
                                   !.message = IF Len(items) = 0 THEN NoItemsMsg ELSE <<>>])

\* fault: a failed createItem is tried again
CreateItemDoneRetries(ids) ==
  /\ UNCHANGED nonSteamVars
  /\ TaskReady
  /\ \E c \in CallIds :
       /\ calls[c].pc = "awaitCreate"
       /\ \/ \E id \in ids :
               calls' = [calls EXCEPT ![c] =
                           [@ EXCEPT !.createdId = id,
                                     !.publishedFileId = BigIntToString(id),
                                     !.updateTarget = id,
                                     !.updateCalls = @ + 1,
                                     !.pc = "awaitUpdate"]]
          \/ calls' = [calls EXCEPT ![c] = [@ EXCEPT !.createCalls = @ + 1]]
  /\ UNCHANGED <<steamClient, steamInitialized, initializationPromise, seqs, waiters,
                 microtasks, startupDone, workshopItems>>

\* upload-to-workshop lines 414-427: createItem settles
CreateItemDone(ids) ==
  /\ UNCHANGED nonSteamVars
  /\ TaskReady
  /\ \E c \in CallIds :
       /\ calls[c].pc = "awaitCreate"
       /\ \/ \E id \in ids :
               calls' = [calls EXCEPT ![c] =
                           [@ EXCEPT !.createdId = id,
                                     !.publishedFileId = BigIntToString(id),
                                     !.updateTarget = id,
                                     !.updateCalls = @ + 1,
                                     !.pc = "awaitUpdate"]]
          \/ \E e \in SdkErrors :
               calls' = [calls EXCEPT ![c] = Threw(SdkFailed(@, e), normalizeWorkshopError(e))]
  /\ UNCHANGED <<steamClient, steamInitialized, initializationPromise, seqs, waiters,
                 microtasks, startupDone, workshopItems>>

\* fault: what overlay.activateToWebPage throws is not caught
UpdateItemDoneOverlayFails ==
  /\ UNCHANGED nonSteamVars
  /\ TaskReady
  /\ \E c \in CallIds :
       /\ calls[c].pc = "awaitUpdate"
       /\ \/ \E overlayThrows \in BOOLEAN :
               calls' = [calls EXCEPT ![c] =
                           IF overlayThrows
                           THEN Threw(ActivateToWebPage(@, TRUE),
                                      normalizeWorkshopError(SdkOtherError))
                           ELSE Returned(ActivateToWebPage(@, FALSE),
                                         [NoResult EXCEPT !.success = TRUE,
                                                          !.publishedFileId = calls[c].publishedFileId])]
          \/ \E e \in SdkErrors :
               calls' = [calls EXCEPT ![c] = Threw(SdkFailed(@, e), normalizeWorkshopError(e))]
  /\ UNCHANGED <<steamClient, steamInitialized, initializationPromise, seqs, waiters,
                 microtasks, startupDone, workshopItems>>

\* upload-to-workshop lines 423-468: updateItem settles; after a success the
\* result is built, the overlay is asked for the item's page inside its own
\* try / catch, and the result is returned
UpdateItemDone ==
  /\ UNCHANGED nonSteamVars
  /\ TaskReady
  /\ \E c \in CallIds :
       /\ calls[c].pc = "awaitUpdate"
       /\ \/ \E overlayThrows \in BOOLEAN :
               calls' = [calls EXCEPT ![c] =
                           Returned(ActivateToWebPage(@, overlayThrows),
                                    [NoResult EXCEPT !.success = TRUE,
                                                     !.publishedFileId = calls[c].publishedFileId])]
          \/ \E e \in SdkErrors :
               calls' = [calls EXCEPT ![c] = Threw(SdkFailed(@, e), normalizeWorkshopError(e))]
  /\ UNCHANGED <<steamClient, steamInitialized, initializationPromise, seqs, waiters,
                 microtasks, startupDone, workshopItems>>

\* fault: what deleteItem throws is not caught
DeleteItemDoneThrows ==
  /\ UNCHANGED nonSteamVars
  /\ TaskReady
  /\ \E c \in CallIds :
       /\ calls[c].pc = "awaitDelete"
       /\ \/ calls' = [calls EXCEPT ![c] = Returned(@, [NoResult EXCEPT !.success = TRUE])]
          \/ \E e \in SdkErrors :
               calls' = [calls EXCEPT ![c] = Threw(@, normalizeWorkshopError(e))]
  /\ UNCHANGED <<steamClient, steamInitialized, initializationPromise, seqs, waiters,
                 microtasks, startupDone, workshopItems>>

\* delete-workshop-item lines 564-580: deleteItem settles
DeleteItemDone ==
  /\ UNCHANGED nonSteamVars
  /\ TaskReady
  /\ \E c \in CallIds :
       /\ calls[c].pc = "awaitDelete"
       /\ \/ calls' = [calls EXCEPT ![c] = Returned(@, [NoResult EXCEPT !.success = TRUE])]
          \/ \E e \in SdkErrors :
               calls' = [calls EXCEPT ![c] =
                           Returned(SdkFailed(@, e), [NoResult EXCEPT !.success = FALSE,
                                                        !.error = normalizeWorkshopError(e)])]
  /\ UNCHANGED <<steamClient, steamInitialized, initializationPromise, seqs, waiters,
                 microtasks, startupDone, workshopItems>>

\* queryWorkshopItemsWithCompatibility lines 143-159: the current signature settles
\* fault: no fallback, a failure of the current signature fails the listing
ModernQueryDoneNoFallback(lists) ==
  /\ UNCHANGED nonSteamVars
  /\ TaskReady
  /\ \E c \in CallIds :
       /\ calls[c].pc = "awaitModern"
       /\ \/ \E items \in lists :
               calls' = [calls EXCEPT ![c] = ListSucceeded(@, items)]
          \/ \E e \in SdkErrors :
               calls' = [calls EXCEPT ![c] = ListFailed(@, e)]
  /\ UNCHANGED <<steamClient, steamInitialized, initializationPromise, seqs, waiters,
                 microtasks, startupDone, workshopItems>>

\* a failure is kept in lastError and the legacy signature is tried
ModernQueryDone(lists) ==
  /\ UNCHANGED nonSteamVars
  /\ TaskReady
  /\ \E c \in CallIds :
       /\ calls[c].pc = "awaitModern"
       /\ \/ \E items \in lists :
               calls' = [calls EXCEPT ![c] = ListSucceeded(@, items)]
          \/ \E e \in SdkErrors :
               calls' = [calls EXCEPT ![c] = [SdkFailed(@, e) EXCEPT !.pc = "awaitLegacy",
                                                                    !.legacyCalls = @ + 1]]
  /\ UNCHANGED <<steamClient, steamInitialized, initializationPromise, seqs, waiters,
                 microtasks, startupDone, workshopItems>>

\* queryWorkshopItemsWithCompatibility lines 161-186: the legacy signature settles
LegacyQueryDone(lists) ==
  /\ UNCHANGED nonSteamVars
  /\ TaskReady
  /\ \E c \in CallIds :
       /\ calls[c].pc = "awaitLegacy"
       /\ \/ \E items \in lists :
               calls' = [calls EXCEPT ![c] = ListSucceeded(@, items)]
          \/ \E e \in SdkErrors :
               calls' = [calls EXCEPT ![c] = ListFailed(SdkFailed(@, e), e)]
  /\ UNCHANGED <<steamClient, steamInitialized, initializationPromise, seqs, waiters,
                 microtasks, startupDone, workshopItems>>


\* ------------------------------------------------------------- renderer
\* ModEditor state: formData, selectedZipPath and selectedPreviewPath
Forms ==
  [title : {<<>>, <<" ">>, <<"T">>},
   description : {<<>>, <<"D">>},
   tags : {<<"a", ",", " ">>},
   visibility : {"public"},
   changeNotes : {<<>>, <<" ">>, <<"n">>},
   selectedZipPath : {<<>>, <<"mod.zip">>},
   selectedPreviewPath : {<<>>}]

\* editingItem: absent, or one of the listed items
NoItem == [publishedFileId |-> <<>>, title |-> <<>>, description |-> <<>>,
           tags |-> <<>>, visibility |-> ""]
IsEditing(item) == item # NoItem
EditableItems == {NoItem} \cup {workshopItems[i] : i \in 1..Len(workshopItems)}

\* Array.prototype.join(', ')
RECURSIVE JoinTags(_)
JoinTags(tags) ==
  IF tags = <<>> THEN <<>>
  ELSE IF Len(tags) = 1 THEN Head(tags)
       ELSE Head(tags) \o <<",", " ">> \o JoinTags(Tail(tags))

\* fault: validateForm without the check that a new mod has a ZIP
validateFormNoZip(form, editingItem) ==
  (IF Trim(form.title) = <<>> \/ Len(form.title) > MaxTitleLen THEN {"title"} ELSE {})
  \cup (IF Trim(form.description) = <<>> \/ Len(form.description) > MaxDescriptionLen
        THEN {"description"} ELSE {})
  \cup (IF IsEditing(editingItem) /\ Truthy(form.selectedZipPath)
           /\ Trim(form.changeNotes) = <<>>
        THEN {"changeNotes"} ELSE {})

\* fault: validateForm with the change notes tested for emptiness, not trimmed
validateFormUntrimmedNotes(form, editingItem) ==
  (IF Trim(form.title) = <<>> \/ Len(form.title) > MaxTitleLen THEN {"title"} ELSE {})
  \cup (IF Trim(form.description) = <<>> \/ Len(form.description) > MaxDescriptionLen
        THEN {"description"} ELSE {})
  \cup (IF ~IsEditing(editingItem) /\ Falsy(form.selectedZipPath) THEN {"zipPath"} ELSE {})
  \cup (IF IsEditing(editingItem) /\ Truthy(form.selectedZipPath)
           /\ Falsy(form.changeNotes)
        THEN {"changeNotes"} ELSE {})

\* ModEditor.validateForm: the set of fields with an error
validateForm(form, editingItem) ==
  (IF Trim(form.title) = <<>> \/ Len(form.title) > MaxTitleLen THEN {"title"} ELSE {})
  \cup (IF Trim(form.description) = <<>> \/ Len(form.description) > MaxDescriptionLen
        THEN {"description"} ELSE {})
  \cup (IF ~IsEditing(editingItem) /\ Falsy(form.selectedZipPath) THEN {"zipPath"} ELSE {})
  \cup (IF IsEditing(editingItem) /\ Truthy(form.selectedZipPath)
           /\ Trim(form.changeNotes) = <<>>
        THEN {"changeNotes"} ELSE {})

\* ModEditor.tsx handleSubmit lines 144-159: the set of failed checks
handleSubmitChecks(form, editingItem) ==
  (IF ~IsEditing(editingItem) /\ Falsy(form.selectedZipPath) THEN {"zipPath"} ELSE {})
  \cup (IF Falsy(form.title) \/ Falsy(form.description) THEN {"required"} ELSE {})
  \cup (IF IsEditing(editingItem) /\ Truthy(form.selectedZipPath)
           /\ Trim(form.changeNotes) = <<>>
        THEN {"changeNotes"} ELSE {})

\* the automatic change notes of an update without a ZIP
MinorUpdateNotes(form, editingItem) ==
  LET changes ==
        (IF form.title # editingItem.title THEN <<"Updated title">> ELSE <<>>)
        \o (IF form.description # editingItem.description THEN <<"Updated description">> ELSE <<>>)
        \o (IF form.tags # JoinTags(editingItem.tags) THEN <<"Updated tags">> ELSE <<>>)
        \o (IF form.visibility # editingItem.visibility THEN <<"Changed visibility">> ELSE <<>>)
  IN IF Len(changes) > 0
     THEN <<"Minor update:">> \o changes \o <<".">>
     ELSE <<"Minor update: No significant changes.">>

\* handleConfirmUpload / handleSubmit: the ModUploadData sent to the main process
BuildUploadData(form, editingItem) ==
  LET notes == IF IsEditing(editingItem) /\ Falsy(form.selectedZipPath)
               THEN MinorUpdateNotes(form, editingItem)
               ELSE form.changeNotes
  IN [workshopId |-> editingItem.publishedFileId,
      zipPath |-> form.selectedZipPath,
      title |-> form.title,
      description |-> form.description,
      tags |-> form.tags,
      visibility |-> form.visibility,
      previewImagePath |-> form.selectedPreviewPath,
      changeNotes |-> IF Truthy(notes) THEN notes
                      ELSE IF IsEditing(editingItem) THEN <<"Updated mod.">> ELSE <<>>]

isUploading == \E c \in CallIds : calls[c].kind = "upload"

\* the submit button is live: the renderer is idle and disabled={isUploading} is off
CanSubmit == TaskReady /\ ~isUploading

\* the request as the form holds it when a check fails: nothing is built or sent
RejectedRequest(form, editingItem) ==
  [FreeCall EXCEPT !.kind = "upload", !.pc = "rejected",
                   !.data = [NoData EXCEPT !.workshopId = editingItem.publishedFileId,
                                           !.zipPath = form.selectedZipPath,
                                           !.title = form.title,
                                           !.description = form.description,
                                           !.changeNotes = form.changeNotes]]

\* A submission of the ModEditor form: the checks, and when they pass the
\* invocation of 'upload-to-workshop' through App.handleUpload.  A request
\* that fails a check stays in the renderer (pc "rejected") until the user
\* dismisses the error.
Submit(n, form, editingItem, errors) ==
  /\ UNCHANGED nonSteamVars
  /\ \E c \in CallIds :
       /\ NextFree(c, n)
       /\ IF errors # {}
          THEN /\ calls' = [calls EXCEPT ![c] = RejectedRequest(form, editingItem)]
               /\ UNCHANGED <<steamClient, steamInitialized, initializationPromise, seqs,
                              waiters, microtasks>>
          ELSE Begin(c, [FreeCall EXCEPT !.kind = "upload",
                                         !.data = BuildUploadData(form, editingItem)])
  /\ UNCHANGED <<startupDone, workshopItems>>

\* ModEditor (current): handleSubmitClick, validateForm, handleConfirmUpload
SubmitForm(n, forms) ==
  /\ CanSubmit
  /\ \E form \in forms, editingItem \in EditableItems :
       Submit(n, form, editingItem, validateForm(form, editingItem))

\* ModEditor.tsx: handleSubmit
SubmitFormInline(n, forms) ==
  /\ CanSubmit
  /\ \E form \in forms, editingItem \in EditableItems :
       Submit(n, form, editingItem, handleSubmitChecks(form, editingItem))


\* ModList.loadWorkshopItems (timer, refresh or 'steam-initialized'): invokes 'get-workshop-items'
LoadWorkshopItems(n) ==
  /\ UNCHANGED nonSteamVars
  /\ TaskReady
  /\ \E c \in CallIds :
       /\ NextFree(c, n)
       /\ Begin(c, [FreeCall EXCEPT !.kind = "list"])
  /\ UNCHANGED <<startupDone, workshopItems>>

\* SteamStatus component: invokes 'get-steam-status'
GetSteamStatus(n) ==
  /\ UNCHANGED nonSteamVars
  /\ TaskReady
  /\ \E c \in CallIds :
       /\ NextFree(c, n)
       /\ Begin(c, [FreeCall EXCEPT !.kind = "status"])
  /\ UNCHANGED <<startupDone, workshopItems>>

\* ModList.handleDeleteConfirm: invokes 'delete-workshop-item' for a listed item
DeleteWorkshopItem(n) ==
  /\ UNCHANGED nonSteamVars
  /\ TaskReady
  /\ \E i \in 1..Len(workshopItems), c \in CallIds :
       /\ NextFree(c, n)
       /\ Begin(c, [FreeCall EXCEPT !.kind = "delete",
                                    !.data = [NoData EXCEPT !.workshopId =
                                                workshopItems[i].publishedFileId]])
  /\ UNCHANGED <<startupDone, workshopItems>>

RECURSIVE RemoveItem(_, _)
RemoveItem(items, id) ==
  IF items = <<>> THEN <<>>
  ELSE IF Head(items).publishedFileId = id THEN RemoveItem(Tail(items), id)
       ELSE <<Head(items)>> \o RemoveItem(Tail(items), id)

\* The invocation's promise settles in the renderer: loadWorkshopItems stores
\* the items, handleDeleteConfirm drops the deleted item, handleUpload and
\* SteamStatus report.  Nothing re-invokes the handler.
Settle ==
  /\ UNCHANGED nonSteamVars
  /\ microtasks = <<>>
  /\ \E c \in CallIds :
       /\ calls[c].pc \in {"done", "rejected"}
       /\ workshopItems' =
            CASE calls[c].kind = "list" -> calls[c].result.items
              [] calls[c].kind = "delete" /\ calls[c].result.success ->
                   RemoveItem(workshopItems, calls[c].data.workshopId)
              [] OTHER -> workshopItems
       /\ calls' = [calls EXCEPT ![c] = FreeCall]
  /\ UNCHANGED <<steamClient, steamInitialized, initializationPromise, seqs, waiters,
                 microtasks, startupDone>>

\* ------------------------------------------------------- mod parser
\* Names and titles are sequences of characters.
NameChars == {"a", "b", "-", "_", " "}
IsWordChar(ch) == ch \in {"a", "b", "A", "B", "_", "1"}
ToUpperChar(ch) == CASE ch = "a" -> "A" [] ch = "b" -> "B" [] OTHER -> ch

\* .replace(/[-_]/g, ' ')
ReplaceSeparators(name) ==
  [i \in 1..Len(name) |-> IF name[i] \in {"-", "_"} THEN " " ELSE name[i]]

\* .replace(/\b\w/g, letter => letter.toUpperCase())
CapitalizeWords(s) ==
  [i \in 1..Len(s) |->
     IF IsWordChar(s[i]) /\ (i = 1 \/ ~IsWordChar(s[i - 1]))
     THEN ToUpperChar(s[i]) ELSE s[i]]

formatModName(name) ==
  IF name = <<>> THEN name
  ELSE Trim(CapitalizeWords(ReplaceSeparators(name)))

\* ---- mod.js text
\* A mod.js text is a sequence of tokens: " " is white space, a punctuation
\* mark or a word (identifier or keyword) is a token of its own, and a string
\* literal is one token written with its quotes.  StringLiterals gives, for
\* each literal, its quote, its characters, the key it names when it is used
\* as a quoted key, and whether its characters hold a word followed by ':'.
\* The characters of a key or of a tag name are kept as one unit.
Str(q, chars, key, colon) == [q |-> q, chars |-> chars, key |-> key, colon |-> colon]
StringLiterals ==
  [tok \in {"'a-b'", "\"a-b\"", "'b a'", "\"b a\"", "'1'", "\"1\"", "'a'", "\"a\"",
            "'b'", "\"b\"", "'a: b'", "\"name\"", "\"title\"", "\"version\"",
            "\"author\"", "\"tags\"", "\"links\"", "\"web\"", "'Items'",
            "\"Items\"", "\"a: b\"", "\"description\"",
            "\"keywords\""} |->
     CASE tok = "'a-b'" -> Str("'", <<"a", "-", "b">>, "", FALSE)
       [] tok = "\"a-b\"" -> Str("\"", <<"a", "-", "b">>, "", FALSE)
       [] tok = "'b a'" -> Str("'", <<"b", " ", "a">>, "", FALSE)
       [] tok = "\"b a\"" -> Str("\"", <<"b", " ", "a">>, "", FALSE)
       [] tok = "'1'" -> Str("'", <<"1">>, "", FALSE)
       [] tok = "\"1\"" -> Str("\"", <<"1">>, "", FALSE)
       [] tok = "'a'" -> Str("'", <<"a">>, "", FALSE)
       [] tok = "\"a\"" -> Str("\"", <<"a">>, "", FALSE)
       [] tok = "'b'" -> Str("'", <<"b">>, "", FALSE)
       [] tok = "\"b\"" -> Str("\"", <<"b">>, "", FALSE)
       [] tok = "'Items'" -> Str("'", <<"Items">>, "", FALSE)
       [] tok = "\"Items\"" -> Str("\"", <<"Items">>, "", FALSE)
       [] tok = "\"a: b\"" -> Str("\"", <<"a", ":", " ", "b">>, "", TRUE)
       [] tok = "\"description\"" -> Str("\"", <<"description">>, "description", FALSE)
       [] tok = "\"keywords\"" -> Str("\"", <<"keywords">>, "keywords", FALSE)
       [] tok = "'a: b'" -> Str("'", <<"a", ":", " ", "b">>, "", TRUE)
       [] tok = "\"name\"" -> Str("\"", <<"name">>, "name", FALSE)
       [] tok = "\"title\"" -> Str("\"", <<"title">>, "title", FALSE)
       [] tok = "\"version\"" -> Str("\"", <<"version">>, "version", FALSE)
       [] tok = "\"author\"" -> Str("\"", <<"author">>, "author", FALSE)
       [] tok = "\"tags\"" -> Str("\"", <<"tags">>, "tags", FALSE)
       [] tok = "\"links\"" -> Str("\"", <<"links">>, "links", FALSE)
       [] OTHER -> Str("\"", <<"web">>, "web", FALSE)]
IsLiteral(tok) == tok \in DOMAIN StringLiterals
Punctuation == {"{", "}", "(", ")", "[", "]", ":", ",", ".", "=>", ";", " "}
\* \w+ : an identifier or keyword
IsWord(tok) == ~IsLiteral(tok) /\ tok \notin Punctuation

\* Only({F(v) : v \in {e}}) is F(e), with e computed once however often F uses it
Only(S) == CHOOSE r \in S : TRUE

\* the least member of a set of positions, none if it is empty
LeastOr(S, none) ==
  Only({IF T = {} THEN none ELSE CHOOSE k \in T : \A m \in T : k <= m : T \in {S}})
\* of a set of tuples, the one with the least, or the greatest, first component
First(P) == CHOOSE p \in P : \A q \in P : p[1] <= q[1]
Last(P) == CHOOSE p \in P : \A q \in P : q[1] <= p[1]

\* the position of the first token at or after i that is not white space (\s*)
SkipWs(t, i) == LeastOr({j \in i..Len(t) : t[j] # " "}, Len(t) + 1)
\* that token, "" at the end of the text
NextToken(t, i) == Only({IF j <= Len(t) THEN t[j] ELSE "" : j \in {SkipWs(t, i)}})

\* The tokens of pat found from position i on with \s* between them and after
\* the last: the position that follows, or 0 when they are not there.
RECURSIVE MatchTokens(_, _, _)
MatchTokens(t, i, pat) ==
  IF pat = <<>> THEN i
  ELSE IF i <= Len(t) /\ t[i] = Head(pat)
       THEN Only({MatchTokens(t, j, Tail(pat)) : j \in {SkipWs(t, i + 1)}})
       ELSE 0

\* the position of the first token tok at or after i, Len(t) + 1 if none
Find(t, i, tok) == LeastOr({j \in i..Len(t) : t[j] = tok}, Len(t) + 1)
\* where the accessor's name stands
Starts(t) == {s \in 1..Len(t) : t[s] = "getMetadata"}

\* String.prototype.indexOf: the first position where sub starts, 0 if none
IndexOf(t, sub) ==
  LeastOr({i \in 1..(Len(t) - Len(sub) + 1) : SubSeq(t, i, i + Len(sub) - 1) = sub}, 0)

\* the brace-counting loops: the position where the count of braces opened
\* from position i on returns to 0, the last position before limit if it never does
CountBraces(t, i, limit) ==
  LeastOr({k \in i..(limit - 1) :
             /\ t[k] = "}"
             /\ Cardinality({m \in i..k : t[m] = "{"}) = Cardinality({m \in i..k : t[m] = "}"})},
          limit - 1)

\* ---- JSON.parse on tokens
\* A parsed value: a string (its characters), an object (its members in
\* source order), an array (its elements), or undefined.
Undef == [kind |-> "undef", chars |-> <<>>, members |-> <<>>]
StrVal(chars) == [kind |-> "str", chars |-> chars, members |-> <<>>]
NoParse == [ok |-> FALSE, next |-> 0, val |-> Undef]
Parsed(next, kind, members) ==
  [ok |-> TRUE, next |-> next, val |-> [kind |-> kind, chars |-> <<>>, members |-> members]]

\* Is the token at i a JSON string?  raw: the text is parsed as it stands, so
\* only a double-quoted literal is one.  Otherwise the text went through
\* .replace(/(\w+):/g, '"$1":').replace(/'/g, '"') first: a word directly
\* before ':' has become a quoted key, either quote is a double quote, and a
\* literal holding a word followed by ':' has been broken.
IsJsonString(t, i, raw) ==
  /\ i <= Len(t)
  /\ IF IsLiteral(t[i])
     THEN IF raw THEN StringLiterals[t[i]].q = "\"" ELSE ~StringLiterals[t[i]].colon
     ELSE ~raw /\ IsWord(t[i]) /\ i < Len(t) /\ t[i + 1] = ":"
KeyAt(t, i) == IF IsLiteral(t[i]) THEN StringLiterals[t[i]].key ELSE t[i]
\* the position of the value of the key at i, 0 when no ':' follows the key
ValueAfterKey(t, i) ==
  Only({IF c <= Len(t) /\ t[c] = ":" THEN SkipWs(t, c + 1) ELSE 0 : c \in {SkipWs(t, i + 1)}})

RECURSIVE ParseValue(_, _, _), ParseItems(_, _, _, _, _)
ParseValue(t, i, raw) ==
  IF i > Len(t) THEN NoParse
  ELSE IF t[i] \in {"{", "["}
       THEN Only({IF j <= Len(t) /\ t[j] = (IF t[i] = "{" THEN "}" ELSE "]")
                  THEN Parsed(j + 1, IF t[i] = "{" THEN "obj" ELSE "arr", <<>>)
                  ELSE ParseItems(t, j, raw, IF t[i] = "{" THEN "}" ELSE "]", <<>>)
                  : j \in {SkipWs(t, i + 1)}})
  ELSE IF IsLiteral(t[i]) /\ IsJsonString(t, i, raw)
       THEN [ok |-> TRUE, next |-> i + 1, val |-> StrVal(StringLiterals[t[i]].chars)]
       ELSE NoParse
\* the members of an object (close is "}": key : value , ...) or the elements
\* of an array (close is "]": value , ...) from the one at i on
ParseItems(t, i, raw, close, acc) ==
  IF close = "}" /\ ~IsJsonString(t, i, raw) THEN NoParse
  ELSE Only({
    IF at = 0 THEN NoParse
    ELSE Only({
      IF ~v.ok THEN NoParse
      ELSE Only({
        IF e > Len(t) THEN NoParse
        ELSE IF t[e] = close
             THEN Parsed(e + 1, IF close = "}" THEN "obj" ELSE "arr", Append(acc, item))
        ELSE IF t[e] = ","
             THEN Only({ParseItems(t, n, raw, close, Append(acc, item))
                        : n \in {SkipWs(t, e + 1)}})
             ELSE NoParse
        : e \in {SkipWs(t, v.next)},
          item \in {IF close = "}" THEN [key |-> KeyAt(t, i), val |-> v.val] ELSE v.val}})
      : v \in {ParseValue(t, at, raw)}})
    : at \in {IF close = "}" THEN ValueAfterKey(t, i) ELSE i}})

\* JSON.parse: the value of the whole text; ok is FALSE where it throws
JsonParse(t, raw) ==
  Only({IF r.ok /\ SkipWs(t, r.next) = Len(t) + 1 THEN r ELSE NoParse
        : r \in {ParseValue(t, SkipWs(t, 1), raw)}})

\* obj[key]: the last member of that name, undefined without one
Get(obj, key) ==
  IF obj.kind # "obj" THEN Undef
  ELSE Only({IF at = {} THEN Undef ELSE obj.members[Last({<<k>> : k \in at})[1]].val
             : at \in {{k \in 1..Len(obj.members) : obj.members[k].key = key}}})
IsTruthy(v) == v.kind \in {"obj", "arr"} \/ (v.kind = "str" /\ v.chars # <<>>)
\* a || b
OrElse(a, b) == IF IsTruthy(a) THEN a ELSE b

\* ---- detectTagsFromModJs
tagMap ==
  << [tag |-> "Items", apis |-> {"addItem", "addItemToShop", "addItemToGuild",
        "addItemToAuction", "addItemToFallenStar", "addEnchantment",
        "addUncutStone", "addManual"}],
     [tag |-> "Crafting", apis |-> {"addRecipeToLibrary", "addRecipeToResearch",
        "addResearchableRecipe", "addCraftingTechnique", "addHarmonyType",
        "addCraftingMissionsToLocation"}],
     [tag |-> "Characters", apis |-> {"addCharacter"}],
     [tag |-> "Locations", apis |-> {"addLocation", "linkLocations",
        "registerRootLocation", "addBuildingsToLocation"}],
     [tag |-> "Combat", apis |-> {"addEnemiesToLocation", "addFallenStar", "addPuppetType"}],
     [tag |-> "Techniques", apis |-> {"addTechnique"}],
     [tag |-> "Cultivation", apis |-> {"addBreakthrough", "addDestiny"}],
     [tag |-> "Events", apis |-> {"addTriggeredEvent", "addCalendarEvent",
        "addEventsToLocation", "addExplorationEventsToLocation", "addMapEventsToLocation"}],
     [tag |-> "Quests", apis |-> {"addQuest", "addMissionsToLocation"}],
     [tag |-> "Audio", apis |-> {"addMusic", "addSfx"}],
     [tag |-> "Housing", apis |-> {"addRoom"}],
     [tag |-> "Guilds", apis |-> {"addGuild"}],
     [tag |-> "Relationships", apis |-> {"addDualCultivationTechnique"}],
     [tag |-> "Cosmetics", apis |-> {"addPlayerSprite"}],
     [tag |-> "UI", apis |-> {"addScreen", "addCustomFont", "setCustomFontFamily",
        "addThemeOverride"}],
     [tag |-> "Character Creation", apis |-> {"addBirthBackground", "addChildBackground",
        "addTeenBackground"}],
     [tag |-> "Alternative Start", apis |-> {"addAlternativeStart"}],
     [tag |-> "Translation", apis |-> {"addTranslation"}],
     [tag |-> "Exploration", apis |-> {"addMineChamber", "addMysticalRegionBlessing"}],
     [tag |-> "Farming", apis |-> {"addCrop"}] >>

\* /\b<api>\s*\(/.test(data) for one of the apis
Calls(data, apis) ==
  \E i \in 1..Len(data) :
    /\ data[i] \in apis
    /\ LET j == SkipWs(data, i + 1) IN j <= Len(data) /\ data[j] = "("
\* a tag is a string whose name is one unit
TagVal(tag) == StrVal(<<tag>>)
RECURSIVE TagsFrom(_, _)
TagsFrom(data, k) ==
  IF k > Len(tagMap) THEN <<>>
  ELSE (IF Calls(data, tagMap[k].apis)
        THEN <<TagVal(tagMap[k].tag)>> ELSE <<>>) \o TagsFrom(data, k + 1)
detectTagsFromModJs(data) == TagsFrom(data, 1)

\* ---- parseModJsContent
\* A ModPackageInfo, or null; threw: an exception left the function instead.
NullInfo ==
  [isNull |-> TRUE, threw |-> FALSE, name |-> Undef, title |-> Undef, description |-> Undef,
   version |-> Undef, author |-> Undef, tags |-> Undef]
EmptyInfo == [NullInfo EXCEPT !.isNull = FALSE]
Thrown == [NullInfo EXCEPT !.threw = TRUE]

\* the object literal every JSON path builds from the parsed metadata;
\* formatModName throws on a value that is no string
InfoOf(metadata) ==
  Only({IF shown.kind \in {"obj", "arr"} THEN Thrown
        ELSE [isNull |-> FALSE, threw |-> FALSE,
              name |-> Get(metadata, "name"),
              title |-> IF shown.kind = "str" THEN StrVal(formatModName(shown.chars))
                        ELSE shown,
              description |-> Get(metadata, "description"),
              version |-> Get(metadata, "version"),
              author |-> IF author.kind = "str" THEN author ELSE Get(author, "name"),
              tags |-> OrElse(Get(metadata, "tags"), Get(metadata, "keywords"))]
        : shown \in {OrElse(Get(metadata, "title"), Get(metadata, "name"))},
          author \in {Get(metadata, "author")}})

\* (\{[^}]*(?:\{[^}]*\}[^}]*)*\}) from the '{' at i, followed by \s*\) when
\* paren: the position of the '}' that ends the capture, 0 without a match.
\* The capture ends at the first '}' unless the text after it does not fit;
\* it can then run on to a later '}' as long as every '}' passed has a '{'
\* between it and the one before.
RECURSIVE CaptureEnd(_, _, _)
CaptureEnd(t, prev, paren) ==
  Only({IF p > Len(t) THEN 0
        ELSE IF ~paren \/ NextToken(t, p + 1) = ")" THEN p
        ELSE IF \E k \in (prev + 1)..(p - 1) : t[k] = "{" THEN CaptureEnd(t, p, paren)
        ELSE 0
        : p \in {Find(t, prev + 1, "}")}})

metadataPatterns ==
  << [prefix |-> <<"getMetadata", ":", "function", "(", ")", "{", "return">>, paren |-> FALSE],
     [prefix |-> <<"getMetadata", "(", ")", "{", "return">>, paren |-> FALSE],
     [prefix |-> <<"getMetadata", ":", "(", ")", "=>", "{", "return">>, paren |-> FALSE],
     [prefix |-> <<"getMetadata", ":", "(", ")", "=>", "(">>, paren |-> TRUE],
     [prefix |-> <<"getMetadata", ":", "(", ")", "=>">>, paren |-> FALSE] >>

\* the capture of the match of pattern that starts at s: the positions of its
\* first and last token, <<0, 0>> without a match there
CaptureAt(data, pattern, s) ==
  Only({IF i = 0 \/ i > Len(data) THEN <<0, 0>>
        ELSE IF data[i] # "{" THEN <<0, 0>>
        ELSE Only({IF e = 0 THEN <<0, 0>> ELSE <<i, e>>
                   : e \in {CaptureEnd(data, i, pattern.paren)}})
        : i \in {MatchTokens(data, s, pattern.prefix)}})
\* data.match(pattern)[1]: the capture of the leftmost match, <<>> without a match
Capture(data, pattern) ==
  Only({IF found = {} THEN <<>> ELSE SubSeq(data, First(found)[1], First(found)[2])
        : found \in {{c \in {CaptureAt(data, pattern, s) : s \in Starts(data)} : c[1] # 0}}})

parseMetadataObject(data, capture) ==
  Only({
    Only({
      IF ~metadata.ok THEN NullInfo
      ELSE Only({IF info.threw THEN NullInfo ELSE info : info \in {InfoOf(metadata.val)}})
      : metadata \in {JsonParse(SubSeq(data, startIndex,
                                       CountBraces(data, startIndex, Len(data) + 1)),
                                FALSE)}})
    : startIndex \in {IndexOf(data, capture)}})

\* the string field  key\s*:\s*["']([^"']+)["']  at position k of t: the
\* position of its string, 0 when there is no such field at k
FieldAt(t, k, key) ==
  IF t[k] # key THEN 0
  ELSE Only({IF c = 0 THEN 0
             ELSE IF c <= Len(t) /\ IsLiteral(t[c]) /\ StringLiterals[t[c]].chars # <<>>
                  THEN c ELSE 0
             : c \in {ValueAfterKey(t, k)}})
\* every such field of t: the positions of its key and of its string
FieldsOf(t, key) == {p \in {<<k, FieldAt(t, k, key)>> : k \in 1..Len(t)} : p[2] # 0}
LitVal(t, c) == StrVal(StringLiterals[t[c]].chars)
\* the first such field of t
FirstField(t, key) ==
  Only({IF P = {} THEN Undef ELSE LitVal(t, First(P)[2]) : P \in {FieldsOf(t, key)}})
\* the name fields between the '{' that follows author\s*:\s* at k and the next '}'
NamesOfAuthor(t, k) ==
  Only({IF b = 0 \/ b > Len(t) THEN {}
        ELSE IF t[b] # "{" THEN {}
        ELSE Only({{p \in FieldsOf(t, "name") : b < p[1] /\ p[1] < close}
                   : close \in {Find(t, b + 1, "}")}})
        : b \in {ValueAfterKey(t, k)}})
\* author\s*:\s*\{[^}]*name\s*:\s*["']([^"']+)["']
AuthorName(t) ==
  Only({IF hits = {} THEN Undef ELSE LitVal(t, Last(First(hits)[2])[2])
        : hits \in {{h \in {<<k, NamesOfAuthor(t, k)>> : k \in {k \in 1..Len(t) : t[k] = "author"}}
                      : h[2] # {}}}})

\* Method 0: the inline JSON object after getMetadata
InlineJson(data) ==
  Only({
    IF absoluteStart = 0 THEN NullInfo
    ELSE Only({
      IF ~parsed.ok \/ ~IsTruthy(Get(parsed.val, "name")) THEN NullInfo
      ELSE Only({IF info.threw THEN NullInfo ELSE info : info \in {InfoOf(parsed.val)}})
      : parsed \in {JsonParse(SubSeq(data, absoluteStart,
                                     CountBraces(data, absoluteStart, Len(data) + 1)),
                              TRUE)}})
    : absoluteStart \in
        {LeastOr({j \in Find(data, 1, "getMetadata")..(Len(data) - 2) :
                    /\ data[j] = "{" /\ data[j + 1] = "\"name\""
                    /\ NextToken(data, j + 2) = ":"}, 0)}})

\* Methods 1 and 2 share three openings, each ending at the '{' of the object:
\* the position after that '{' for the opening at s, 0 when it is not there.
\* The third, =>\s*\(?\s*\{, takes a '(' when there is one.
Opening(t, s, n, returnParen) ==
  Only({IF i = 0 THEN 0
        ELSE Only({IF j > Len(t) THEN 0 ELSE IF t[j] # "{" THEN 0 ELSE j + 1
                   : j \in {IF n = 3 /\ NextToken(t, i) = "("
                            THEN SkipWs(t, SkipWs(t, i) + 1) ELSE SkipWs(t, i)}})
        : i \in {MatchTokens(t, s,
                   (CASE n = 1 -> <<"getMetadata", ":", "function", "(", ")", "{", "return">>
                      [] n = 2 -> <<"getMetadata", "(", ")", "{", "return">>
                      [] OTHER -> <<"getMetadata", ":", "(", ")", "=>">>)
                   \o (IF n < 3 /\ returnParen THEN <<"(">> ELSE <<>>))}})
Openings(t, n, returnParen) ==
  {o \in {<<s, Opening(t, s, n, returnParen)>> : s \in Starts(t)} : o[2] # 0}

\* name\s*:\s*(\{[^}]+\})\.name at m: the positions of the capture's braces,
\* <<0, 0>> when it is not there
ObjectDotName(t, m) ==
  Only({IF b = 0 \/ b > Len(t) THEN <<0, 0>>
        ELSE IF t[b] # "{" THEN <<0, 0>>
        ELSE Only({IF e > b + 1 /\ e + 2 <= Len(t) /\ SubSeq(t, e + 1, e + 2) = <<".", "name">>
                   THEN <<b, e>> ELSE <<0, 0>>
                   : e \in {Find(t, b + 1, "}")}})
        : b \in {ValueAfterKey(t, m)}})
\* Method 1: [^]*?name\s*:\s*(\{[^}]+\})\.name after the opening: the capture
\* of the leftmost match, <<>> without one
WebpackCapture(t, n) ==
  Only({
    Only({
      IF usable = {} THEN <<>>
      ELSE Only({SubSeq(t, c[2][1], c[2][2])
                 : c \in {First({d \in caps : d[1] >= First(usable)[2]})}})
      : usable \in {{o \in opens : \E c \in caps : c[1] >= o[2]}}})
    : opens \in {Openings(t, n, TRUE)},
      caps \in {{c \in {<<m, ObjectDotName(t, m)>> : m \in {m \in 1..Len(t) : t[m] = "name"}}
                  : c[2][1] # 0}}})
RECURSIVE WebpackJson(_, _)
WebpackJson(data, n) ==
  IF n > 3 THEN NullInfo
  ELSE Only({
    IF capture = <<>> THEN WebpackJson(data, n + 1)
    ELSE Only({
      IF ~inlineJson.ok THEN WebpackJson(data, n + 1)
      ELSE Only({IF info.threw THEN WebpackJson(data, n + 1) ELSE info
                 : info \in {InfoOf(inlineJson.val)}})
      : inlineJson \in {JsonParse(capture, TRUE)}})
    : capture \in {WebpackCapture(data, n)}})

\* Method 2: fullMatch[0] of the first of the three patterns that matches, <<>> if none
RECURSIVE FullMatch(_, _)
FullMatch(data, n) ==
  IF n > 3 THEN <<>>
  ELSE Only({
    IF hits = {} THEN FullMatch(data, n + 1)
    ELSE Only({SubSeq(data, h[1], IF h[2] <= Len(data) THEN h[2] ELSE Len(data))
               : h \in {First(hits)}})
    : hits \in {{h \in {<<o[1], Find(data, o[2], "}")>> : o \in Openings(data, n, FALSE)}
                  : n = 3 \/ h[2] <= Len(data)}}})
PropertyInfo(fullMatch) ==
  Only({[EmptyInfo EXCEPT !.name = name,
           !.title = IF name.kind = "str" THEN StrVal(formatModName(name.chars)) ELSE Undef,
           !.description = FirstField(fullMatch, "description"),
           !.version = FirstField(fullMatch, "version"),
           !.author = AuthorName(fullMatch)]
        : name \in {FirstField(fullMatch, "name")}})

\* Method 3: name\s*:\s*["']([^"']+)["'][^}]*version\s*:\s*["']([^"']+)["']
BasicInfo(data) ==
  Only({
    Only({
      IF hits = {} THEN NullInfo
      ELSE Only({[EmptyInfo EXCEPT !.name = LitVal(data, h[2]),
                    !.title = StrVal(formatModName(LitVal(data, h[2]).chars)),
                    !.version = LitVal(data, Last(h[3])[2])]
                 : h \in {First(hits)}})
      : hits \in {{h \in {<<p[1], p[2],
                            {v \in versions : p[2] < v[1] /\ v[1] < Find(data, p[2] + 1, "}")}>>
                          : p \in names}
                    : h[3] # {}}}})
    : names \in {FieldsOf(data, "name")}, versions \in {FieldsOf(data, "version")}})

extractWithFallbackMethods(data) ==
  Only({
    IF ~inline.isNull THEN inline
    ELSE Only({
      IF ~webpack.isNull THEN webpack
      ELSE Only({IF fullMatch # <<>> THEN PropertyInfo(fullMatch) ELSE BasicInfo(data)
                 : fullMatch \in {FullMatch(data, 1)}})
      : webpack \in {WebpackJson(data, 1)}})
    : inline \in {InlineJson(data)}})

\* Array.from(new Set(values)): equal strings are kept once, at their first place
RECURSIVE Unique(_)
Unique(values) ==
  IF values = <<>> THEN <<>>
  ELSE Only({IF values[Len(values)].kind = "str"
                /\ \E k \in 1..Len(front) : front[k] = values[Len(values)]
             THEN front ELSE Append(front, values[Len(values)])
             : front \in {Unique(SubSeq(values, 1, Len(values) - 1))}})

\* [...existing]: a string spreads into its characters, an object is not iterable
mergeDetectedTags(result, detectedTags) ==
  IF detectedTags = <<>> \/ result.threw THEN result
  ELSE Only({
    IF base.tags.kind = "obj" THEN Thrown
    ELSE [base EXCEPT !.tags =
            [kind |-> "arr", chars |-> <<>>,
             members |-> Unique((IF base.tags.kind = "arr" THEN base.tags.members
                                 ELSE IF base.tags.kind = "str"
                                      THEN [k \in 1..Len(base.tags.chars) |->
                                              StrVal(<<base.tags.chars[k]>>)]
                                      ELSE <<>>)
                                \o detectedTags)]]
    : base \in {IF result.isNull THEN EmptyInfo ELSE result}})

\* the first pattern whose capture parses decides; n: the pattern tried next
RECURSIVE FirstParsed(_, _)
FirstParsed(data, n) ==
  IF n > Len(metadataPatterns) THEN NullInfo
  ELSE Only({
    IF capture = <<>> THEN FirstParsed(data, n + 1)
    ELSE Only({IF ~result.isNull THEN result ELSE FirstParsed(data, n + 1)
               : result \in {parseMetadataObject(data, capture)}})
    : capture \in {Capture(data, metadataPatterns[n])}})

parseModJsContent(data) ==
  Only({
    Only({
      Only({IF ~result.isNull /\ ~merged.threw THEN merged
            ELSE Only({mergeDetectedTags(fallback, detectedTags)
                       : fallback \in {extractWithFallbackMethods(data)}})
            : merged \in {mergeDetectedTags(result, detectedTags)}})
      : result \in {FirstParsed(data, 1)}})
    : detectedTags \in {detectTagsFromModJs(data)}})

NoNaming == [pc |-> "idle", name |-> <<>>, title |-> <<>>]
NoParsing == [pc |-> "idle", meta |-> <<>>, results |-> <<>>]
NoEntry == [name |-> <<>>, content |-> 0]
NoZip ==
  [pc |-> "idle", count |-> 0, entry |-> NoEntry, pendingReads |-> 0,
   modJsContent |-> 0, packageJsonContent |-> 0,
   firstModJs |-> 0, firstPackageJson |-> 0,
   parsed |-> {}, by |-> "none", result |-> NullInfo]
ParserIdle == naming = NoNaming /\ parsing = NoParsing /\ zip = NoZip

\* every name of at most MaxNameLen characters
NameInputs == UNION {[1..n -> NameChars] : n \in 0..MaxNameLen}

\* formatModName applied to the name
FormatName ==
  /\ naming.pc = "input"
  /\ naming' = [naming EXCEPT !.pc = "done", !.title = formatModName(naming.name)]
  /\ UNCHANGED <<parsing, zip, nonParserVars>>

\* ---- mod.js texts
\* A metadata object literal is described by its quote (a double quote: keys
\* and strings are written as JSON; a single quote: bare keys and
\* single-quoted strings), whether it has a title and a description (one
\* with a word and a colon in it), its
\* author (none, a string, or an object nested to some depth), the tags it
\* declares, and the API calls the file makes after it.
NoAuthor == 0 - 1
MetaInputs ==
  [quote : {"'", "\""}, title : BOOLEAN, description : {"none", "colon"},
   author : NoAuthor..MaxNesting,
   tags : UNION {[1..n -> {"a", "Items"}] : n \in 0..MaxDeclaredTags},
   calls : {<<>>, <<"addCrop", "addItem">>}]

RECURSIVE Joined(_)
Joined(fields) ==
  IF Len(fields) <= 1 THEN (IF fields = <<>> THEN <<>> ELSE fields[1])
  ELSE fields[1] \o <<",", " ">> \o Joined(Tail(fields))
Lit(meta, chars) == meta.quote \o chars \o meta.quote
Field(meta, key, value) ==
  <<IF meta.quote = "\"" THEN Lit(meta, key) ELSE key, ":", " ">> \o value
Braced(fields) == <<"{", " ">> \o Joined(fields) \o <<" ", "}">>
\* { web: 'b' } inside depth - 1 objects { links: ... }
RECURSIVE Links(_, _)
Links(meta, depth) ==
  Braced(<<IF depth <= 1 THEN Field(meta, "web", <<Lit(meta, "b")>>)
           ELSE Field(meta, "links", Links(meta, depth - 1))>>)
ObjectLiteral(meta) ==
  Braced(
    <<Field(meta, "name", <<Lit(meta, "a-b")>>)>>
    \o (IF meta.title THEN <<Field(meta, "title", <<Lit(meta, "b a")>>)>> ELSE <<>>)
    \o <<Field(meta, "version", <<Lit(meta, "1")>>)>>
    \o (IF meta.description = "none" THEN <<>>
        ELSE <<Field(meta, "description",
                     <<Lit(meta, "a: b")>>)>>)
    \o (IF meta.author = NoAuthor THEN <<>>
        ELSE IF meta.author = 0 THEN <<Field(meta, "author", <<Lit(meta, "a")>>)>>
        ELSE <<Field(meta, "author",
                 Braced(<<Field(meta, "name", <<Lit(meta, "a")>>)>>
                        \o (IF meta.author = 1 THEN <<>>
                            ELSE <<Field(meta, "links", Links(meta, meta.author - 1))>>)))>>)
    \o (IF meta.tags = <<>> THEN <<>>
        ELSE <<Field(meta, "tags",
                 <<"[">> \o Joined([k \in 1..Len(meta.tags) |-> <<Lit(meta, meta.tags[k])>>])
                 \o <<"]">>)>>))

\* the five ways of writing the accessor around an object literal
Syntaxes == 1..5
Accessor(syntax, object) ==
  CASE syntax = 1 -> <<"getMetadata", ":", " ", "function", "(", ")", " ", "{", " ",
                       "return", " ">> \o object \o <<" ", "}">>
    [] syntax = 2 -> <<"getMetadata", "(", ")", " ", "{", " ", "return", " ">>
                     \o object \o <<" ", "}">>
    [] syntax = 3 -> <<"getMetadata", ":", " ", "(", ")", " ", "=>", " ", "{", " ",
                       "return", " ">> \o object \o <<" ", "}">>
    [] syntax = 4 -> <<"getMetadata", ":", " ", "(", ")", " ", "=>", " ", "(">>
                     \o object \o <<")">>
    [] OTHER -> <<"getMetadata", ":", " ", "(", ")", " ", "=>", " ">> \o object
RECURSIVE CallStatements(_)
CallStatements(apis) ==
  IF apis = <<>> THEN <<>>
  ELSE <<";", " ", Head(apis), "(", ")">> \o CallStatements(Tail(apis))
\* the mod.js file: the accessor in the exported object, then the calls
ModJs(syntax, meta) ==
  <<"{", " ">> \o Accessor(syntax, ObjectLiteral(meta)) \o <<" ", "}">>
  \o CallStatements(meta.calls)

\* parseModJsContent applied to the next syntax's file of the same object
ParseModJs ==
  /\ parsing.pc = "input"
  /\ Len(parsing.results) < Cardinality(Syntaxes)
  /\ \E data \in {ModJs(Len(parsing.results) + 1, parsing.meta)} :
       parsing' = [parsing EXCEPT !.results = Append(@, parseModJsContent(data))]
  /\ UNCHANGED <<naming, zip, nonParserVars>>

\* ---- extractModMetadata
\* An entry name is a sequence of units; a directory's name ends with "/".
EntryNames ==
  {<<"mod.js">>, <<"src/", "mod.js">>, <<"my", "mod.js">>, <<"package.json">>,
   <<"mod.js", "/">>, <<"readme">>}
\* fileName.endsWith(suffix)
EndsWith(name, suffix) == name # <<>> /\ name[Len(name)] = suffix

\* What an entry can hold, by number; 0 stands for null (nothing read).
\* mod.js: metadata in the function form, API calls only, neither, nothing,
\* and compiled metadata {"name":"a","tags":{"a":"b"}} followed by an API call.
ModJsTexts ==
  << ModJs(1, [quote |-> "'", title |-> FALSE, description |-> "none", author |-> 0,
               tags |-> <<>>, calls |-> <<>>]),
     <<"api", ".", "addItem", "(", ")">>,
     <<"readme">>,
     <<>>,
     <<"{", " ", "getMetadata", ":", " ", "function", "(", ")", " ", "{", " ",
       "return", " ", "{", "\"name\"", ":", " ", "\"a\"", ",", " ", "\"tags\"", ":", " ",
       "{", "\"a\"", ":", " ", "\"b\"", "}", "}", " ", "}", " ", "}",
       ";", " ", "addItem", "(", ")">> >>
\* package.json: with a name, with another name, without a name, nothing,
\* and a text that is no JSON.
PackageJsonTexts ==
  << <<"{", "\"name\"", ":", " ", "\"b a\"", ",", " ", "\"version\"", ":", " ", "\"1\"", "}">>,
     <<"{", "\"name\"", ":", " ", "\"a\"", ",", " ", "\"keywords\"", ":", " ",
       "[", "\"b\"", "]", "}">>,
     <<"{", "\"version\"", ":", " ", "\"1\"", "}">>,
     <<>>,
     <<"{", "\"name\"">> >>
Contents == 1..Len(ModJsTexts)

parsePackageJson(data) ==
  Only({IF ~pkg.ok THEN NullInfo
        ELSE IF ~IsTruthy(Get(pkg.val, "name")) THEN NullInfo
        ELSE Only({IF info.threw THEN NullInfo
                   ELSE [info EXCEPT !.tags = Get(pkg.val, "keywords")]
                   : info \in {InfoOf(pkg.val)}})
        : pkg \in {JsonParse(data, TRUE)}})

\* if (modJsContent): something was read and it is not the empty string
HasText(content, texts) == content # 0 /\ texts[content] # <<>>

\* tryResolve asking package.json first
tryResolvePackageFirst(z) ==
  Only({
    IF ~fromPackage.isNull
    THEN [z EXCEPT !.pc = "resolved", !.by = "tryResolve", !.parsed = {"package.json"},
                   !.result = fromPackage]
    ELSE [z EXCEPT !.pc = "resolved", !.by = "tryResolve",
                   !.parsed = {"package.json", "mod.js"},
                   !.result = IF HasText(z.modJsContent, ModJsTexts)
                              THEN parseModJsContent(ModJsTexts[z.modJsContent])
                              ELSE NullInfo]
    : fromPackage \in {IF HasText(z.packageJsonContent, PackageJsonTexts)
                       THEN parsePackageJson(PackageJsonTexts[z.packageJsonContent])
                       ELSE NullInfo}})

\* tryResolve with no read pending: mod.js first, then package.json, then null;
\* an exception thrown by parseModJsContent is not caught
tryResolve(z) ==
  Only({
    IF fromModJs.threw THEN [z EXCEPT !.pc = "crashed", !.parsed = tried]
    ELSE IF ~fromModJs.isNull
         THEN [z EXCEPT !.pc = "resolved", !.by = "tryResolve", !.parsed = tried,
                        !.result = fromModJs]
    ELSE IF HasText(z.packageJsonContent, PackageJsonTexts)
         THEN [z EXCEPT !.pc = "resolved", !.by = "tryResolve",
                        !.parsed = tried \cup {"package.json"},
                        !.result = parsePackageJson(PackageJsonTexts[z.packageJsonContent])]
         ELSE [z EXCEPT !.pc = "resolved", !.by = "tryResolve", !.parsed = tried,
                        !.result = NullInfo]
    : fromModJs \in {IF HasText(z.modJsContent, ModJsTexts)
                     THEN Only({parseModJsContent(data) : data \in {ModJsTexts[z.modJsContent]}})
                     ELSE NullInfo},
      tried \in {IF HasText(z.modJsContent, ModJsTexts) THEN {"mod.js"} ELSE {}}})

\* the callback of yauzl.open: null when the archive cannot be opened, else
\* the first readEntry
OpenZip ==
  /\ zip.pc = "opening"
  /\ \E err \in BOOLEAN :
       zip' = IF err THEN [zip EXCEPT !.pc = "resolved", !.by = "open"]
              ELSE [zip EXCEPT !.pc = "scanning"]
  /\ UNCHANGED <<naming, parsing, nonParserVars>>

\* 'entry': a file whose name ends with mod.js or package.json is opened for
\* reading, any other entry is passed over with the next readEntry
EntryEvent ==
  /\ zip.pc = "scanning" /\ zip.count < MaxEntries
  /\ \E fileName \in EntryNames, content \in Contents :
       LET isModJs == EndsWith(fileName, "mod.js")
           isPackageJson == EndsWith(fileName, "package.json")
       IN IF (isModJs \/ isPackageJson) /\ ~EndsWith(fileName, "/")
          THEN zip' = [zip EXCEPT !.count = @ + 1, !.pendingReads = @ + 1, !.pc = "reading",
                                  !.entry = [name |-> fileName, content |-> content]]
          ELSE zip' = [zip EXCEPT !.count = @ + 1,
                                  !.entry = [name |-> fileName, content |-> 0]]
  /\ UNCHANGED <<naming, parsing, nonParserVars>>

\* the callback of openReadStream: on an error the entry is given up
ReadStreamOpened ==
  /\ zip.pc = "reading"
  /\ \E err \in BOOLEAN :
       zip' = IF err THEN [zip EXCEPT !.pendingReads = @ - 1, !.pc = "scanning"]
              ELSE [zip EXCEPT !.pc = "streaming"]
  /\ UNCHANGED <<naming, parsing, nonParserVars>>

\* 'end' of the stream, after all its 'data': the text read becomes the
\* content of its kind.  firstModJs and firstPackageJson remember the first
\* content of each kind that was read.
StreamEnd ==
  /\ zip.pc = "streaming"
  /\ zip' = IF EndsWith(zip.entry.name, "mod.js")
            THEN [zip EXCEPT !.modJsContent = zip.entry.content,
                             !.firstModJs = IF @ = 0 THEN zip.entry.content ELSE @,
                             !.pendingReads = @ - 1, !.pc = "scanning"]
            ELSE [zip EXCEPT !.packageJsonContent = zip.entry.content,
                             !.firstPackageJson = IF @ = 0 THEN zip.entry.content ELSE @,
                             !.pendingReads = @ - 1, !.pc = "scanning"]
  /\ UNCHANGED <<naming, parsing, nonParserVars>>

\* 'error' of the stream: the entry is given up
StreamError ==
  /\ zip.pc = "streaming"
  /\ zip' = [zip EXCEPT !.pendingReads = @ - 1, !.pc = "scanning"]
  /\ UNCHANGED <<naming, parsing, nonParserVars>>

\* 'end' of the archive: checkAndResolve
EndEvent ==
  /\ zip.pc = "scanning"
  /\ zip' = IF zip.pendingReads = 0 THEN tryResolve(zip) ELSE zip
  /\ UNCHANGED <<naming, parsing, nonParserVars>>

\* 'error' of the archive, raised by a readEntry
ZipError ==
  /\ zip.pc = "scanning"
  /\ zip' = [zip EXCEPT !.pc = "resolved", !.by = "error"]
  /\ UNCHANGED <<naming, parsing, nonParserVars>>

ArchiveNext ==
  \/ OpenZip \/ EntryEvent \/ ReadStreamOpened \/ StreamEnd \/ StreamError
  \/ EndEvent \/ ZipError

\* ------------------------------------------------ visibility translation
\* The two translations as the handlers use them: 'upload-to-workshop' turns
\* data.visibility into the code of updateDetails, 'get-workshop-items' turns
\* the code of a listed item into the string of the WorkshopItem.
VisibilityStrings == {"public", "friends", "private", "unlisted"}

\* a visibility at run time: the four values, undefined, "" and other strings
UndefinedVisibility == "undefined"
VisibilityInputs ==
  VisibilityStrings \cup {UndefinedVisibility, "", "Public", "hidden"}

\* a code at run time: the four codes and the numbers around them; a missing
\* code (undefined) takes the default branch as MissingCode does
MissingCode == 0 - 1
CodeInputs == MissingCode .. MaxUgcCode
UgcCodes == {UgcItemVisibility[k] : k \in DOMAIN UgcItemVisibility}

NoTrip == [pc |-> "idle", visibility |-> "", code |-> MissingCode, back |-> ""]
NoCodeTrip == [pc |-> "idle", code |-> MissingCode, visibility |-> "", back |-> MissingCode]

VisibilityIdle == encodeTrip = NoTrip /\ decodeTrip = NoCodeTrip

\* visibilityToUgcVisibility applied to the input string
EncodeVisibility ==
  /\ encodeTrip.pc = "input"
  /\ encodeTrip' = [encodeTrip EXCEPT
                      !.pc = "encoded",
                      !.code = visibilityToUgcVisibility(encodeTrip.visibility)]
  /\ UNCHANGED <<decodeTrip, nonVisibilityVars>>

\* ugcVisibilityToString applied to the code EncodeVisibility produced
DecodeBack ==
  /\ encodeTrip.pc = "encoded"
  /\ encodeTrip' = [encodeTrip EXCEPT
                      !.pc = "done",
                      !.back = ugcVisibilityToString(encodeTrip.code)]
  /\ UNCHANGED <<decodeTrip, nonVisibilityVars>>

\* ugcVisibilityToString applied to the input code
DecodeVisibility ==
  /\ decodeTrip.pc = "input"
  /\ decodeTrip' = [decodeTrip EXCEPT
                      !.pc = "decoded",
                      !.visibility = ugcVisibilityToString(decodeTrip.code)]
  /\ UNCHANGED <<encodeTrip, nonVisibilityVars>>

\* visibilityToUgcVisibility applied to the string DecodeVisibility produced
EncodeBack ==
  /\ decodeTrip.pc = "decoded"
  /\ decodeTrip' = [decodeTrip EXCEPT
                      !.pc = "done",
                      !.back = visibilityToUgcVisibility(decodeTrip.visibility)]
  /\ UNCHANGED <<encodeTrip, nonVisibilityVars>>

VisibilityNext == EncodeVisibility \/ DecodeBack \/ DecodeVisibility \/ EncodeBack

\* ------------------------------------------------------------ image-utils
NoPath == [dir |-> "none", n |-> 0]
UserPath == [dir |-> "user", n |-> 0]
\* path.join(os.tmpdir(), `workshop_preview_${Date.now()}.jpg`)
TempPath(t) == [dir |-> "tmp", n |-> t]
ImagePaths == {UserPath} \cup {TempPath(t) : t \in 1..MaxClock}
Absent == -1
FileSizes == (MAX_FILE_SIZE - SizeSlack) .. (MAX_FILE_SIZE + SizeSlack)

NoImageResult ==
  [success |-> FALSE, originalPath |-> NoPath, compressedPath |-> NoPath,
   originalSize |-> 0, compressedSize |-> 0, quality |-> 0,
   wasCompressed |-> FALSE, error |-> ""]

\* decodes, encodes: calls of nativeImage.createFromPath and of toJPEG made by
\* the call; wrote: the call wrote to its temp file; wasOutput: the input path
\* is the compressedPath of an earlier successful compression; bufferLength:
\* compressedBuffer.length (Absent while compressedBuffer is null); tried: the
\* toJPEG calls that returned, each with the scale and quality it was made at
\* and whether its buffer was within MAX_FILE_SIZE
IdleImg ==
  [pc |-> "idle", imagePath |-> NoPath, originalSize |-> Absent, tempPath |-> NoPath,
   quality |-> 0, resized |-> FALSE, decodes |-> 0, encodes |-> 0,
   wrote |-> FALSE, wasOutput |-> FALSE, bufferLength |-> Absent, tried |-> <<>>,
   result |-> NoImageResult]

\* compressedBuffer = scaledImage.toJPEG(quality) returned len bytes
ToJPEG(call, len) ==
  [call EXCEPT !.encodes = @ + 1, !.bufferLength = len,
               !.tried = Append(@, [resized |-> call.resized, quality |-> call.quality,
                                    fits |-> len <= MAX_FILE_SIZE])]

ImageFailure(call, originalSize, error) ==
  [call EXCEPT !.pc = "done",
               !.result = [NoImageResult EXCEPT !.originalPath = call.imagePath,
                                                !.originalSize = originalSize,
                                                !.error = error]]

\* fault: a file of exactly MAX_FILE_SIZE bytes is taken to be over the limit
UnderLimitStrict(size) == size < MAX_FILE_SIZE

\* line 36: originalSize <= MAX_FILE_SIZE
UnderLimit(size) == size <= MAX_FILE_SIZE

\* compressPreviewImage lines 21-93: up to the first quality loop.  empty: the
\* decoded image is empty; t: the value of Date.now().
StartCompress(p, t, empty) ==
  LET call == [IdleImg EXCEPT !.imagePath = p, !.originalSize = files[p],
                              !.wasOutput = p \in outputs] IN
    IF files[p] = Absent THEN ImageFailure(call, 0, "File not found")
    ELSE IF UnderLimit(files[p])
    THEN [call EXCEPT !.pc = "done",
                      !.result = [NoImageResult EXCEPT !.success = TRUE,
                                                       !.originalPath = p,
                                                       !.compressedPath = p,
                                                       !.originalSize = files[p],
                                                       !.compressedSize = files[p]]]
    ELSE IF empty
    THEN ImageFailure([call EXCEPT !.decodes = 1], files[p], "Failed to load image")
    ELSE [call EXCEPT !.pc = "encode", !.decodes = 1, !.tempPath = TempPath(t),
                      !.quality = FirstQuality]

\* fs.writeFileSync: the file is written, or it throws before the file is
\* opened, or it throws after the file was opened and truncated
WriteOutcomes == {"written", "notOpened", "truncated"}

\* fault: the last buffer is written without the check of its size
FinishCompressUnchecked(call, len, w) ==
  [img |-> [call EXCEPT !.pc = "done", !.wrote = TRUE,
                        !.result = [NoImageResult EXCEPT
                                      !.success = TRUE,
                                      !.originalPath = call.imagePath,
                                      !.compressedPath = call.tempPath,
                                      !.originalSize = call.originalSize,
                                      !.compressedSize = len,
                                      !.quality = call.quality,
                                      !.wasCompressed = TRUE]],
   files |-> [files EXCEPT ![call.tempPath] = len]]

\* compressPreviewImage lines 137-176: after the loops, with the last buffer
\* of len bytes
FinishCompress(call, len, w) ==
  IF len > MAX_FILE_SIZE
  THEN [img |-> ImageFailure(call, call.originalSize, "Could not compress image below 1MB"),
        files |-> files]
  ELSE CASE w = "written" ->
              [img |-> [call EXCEPT !.pc = "done", !.wrote = TRUE,
                                    !.result = [NoImageResult EXCEPT
                                                  !.success = TRUE,
                                                  !.originalPath = call.imagePath,
                                                  !.compressedPath = call.tempPath,
                                                  !.originalSize = call.originalSize,
                                                  !.compressedSize = len,
                                                  !.quality = call.quality,
                                                  !.wasCompressed = TRUE]],
               files |-> [files EXCEPT ![call.tempPath] = len]]
         [] w = "truncated" ->
              [img |-> ImageFailure([call EXCEPT !.wrote = TRUE], 0, "write failed"),
               files |-> [files EXCEPT ![call.tempPath] = 0]]
         [] OTHER ->
              [img |-> ImageFailure(call, 0, "write failed"), files |-> files]

\* fault: the loops go on below MIN_QUALITY, down to quality 0
EncodePassBelowMinimum(call, len, throws, w) ==
  LET encoded == ToJPEG(call, len) IN
    IF throws THEN [img |-> ImageFailure([call EXCEPT !.encodes = @ + 1], 0, "encode failed"),
                    files |-> files]
    ELSE IF len <= MAX_FILE_SIZE THEN FinishCompress(encoded, len, w)
    ELSE IF call.quality - QUALITY_STEP >= 0
    THEN [img |-> [encoded EXCEPT !.quality = @ - QUALITY_STEP], files |-> files]
    ELSE IF ~call.resized
    THEN [img |-> [encoded EXCEPT !.resized = TRUE, !.quality = ResizedQuality],
          files |-> files]
    ELSE FinishCompress([encoded EXCEPT !.quality = @ - QUALITY_STEP], len, w)

\* fault: the quality is lowered before the size of the buffer is checked
EncodePassLowersFirst(call, len, throws, w) ==
  LET encoded == ToJPEG(call, len) IN
    IF throws THEN [img |-> ImageFailure([call EXCEPT !.encodes = @ + 1], 0, "encode failed"),
                    files |-> files]
    ELSE IF len <= MAX_FILE_SIZE
    THEN FinishCompress([encoded EXCEPT !.quality = @ - QUALITY_STEP], len, w)
    ELSE IF call.quality - QUALITY_STEP >= MIN_QUALITY
    THEN [img |-> [encoded EXCEPT !.quality = @ - QUALITY_STEP], files |-> files]
    ELSE IF ~call.resized
    THEN [img |-> [encoded EXCEPT !.resized = TRUE, !.quality = ResizedQuality],
          files |-> files]
    ELSE FinishCompress([encoded EXCEPT !.quality = @ - QUALITY_STEP], len, w)

\* compressPreviewImage lines 96-135: one pass of a quality loop, and what
\* follows when the loop ends.  toJPEG returns len bytes, or throws.
EncodePass(call, len, throws, w) ==
  LET encoded == ToJPEG(call, len) IN
    IF throws THEN [img |-> ImageFailure([call EXCEPT !.encodes = @ + 1], 0, "encode failed"),
                    files |-> files]
    ELSE IF len <= MAX_FILE_SIZE THEN FinishCompress(encoded, len, w)
    ELSE IF call.quality - QUALITY_STEP >= MIN_QUALITY
    THEN [img |-> [encoded EXCEPT !.quality = @ - QUALITY_STEP], files |-> files]
    ELSE IF ~call.resized
    THEN [img |-> [encoded EXCEPT !.resized = TRUE, !.quality = ResizedQuality],
          files |-> files]
    ELSE FinishCompress([encoded EXCEPT !.quality = @ - QUALITY_STEP], len, w)

\* 'compress-preview-image' is invoked with a path
CompressStart ==
  /\ img.pc = "idle"
  /\ \E p \in ImagePaths, t \in clock..MaxClock, empty \in BOOLEAN :
       /\ img' = StartCompress(p, t, empty)
       /\ clock' = IF StartCompress(p, t, empty).pc = "encode" THEN t ELSE clock
  /\ UNCHANGED <<files, outputs>>
  /\ UNCHANGED nonImageVars

EncodeStep ==
  /\ img.pc = "encode"
  /\ \E len \in FileSizes, throws \in BOOLEAN, w \in WriteOutcomes :
       /\ img' = EncodePass(img, len, throws, w).img
       /\ files' = EncodePass(img, len, throws, w).files
  /\ UNCHANGED <<outputs, clock>>
  /\ UNCHANGED nonImageVars

\* the result reaches the renderer
CompressReturn ==
  /\ img.pc = "done"
  /\ img' = IdleImg
  /\ outputs' = IF img.result.success THEN outputs \cup {img.result.compressedPath}
                ELSE outputs
  /\ UNCHANGED <<files, clock>>
  /\ UNCHANGED nonImageVars

ImageIdle ==
  /\ files = [p \in ImagePaths |-> Absent]
  /\ img = IdleImg
  /\ outputs = {}
  /\ clock = 1

\* the image the user picked: missing, or of any size around the limit
InitialFiles ==
  {[p \in ImagePaths |-> IF p = UserPath THEN size ELSE Absent] :
     size \in {Absent} \cup FileSizes}

ImageInit ==
  /\ SteamInit
  /\ FilesIdle
  /\ VisibilityIdle
  /\ ParserIdle
  /\ files \in InitialFiles
  /\ img = IdleImg
  /\ outputs = {}
  /\ clock = 1

ImageNext == CompressStart \/ EncodeStep \/ CompressReturn

\* every input of both translations
VisibilityInit ==
  /\ SteamInit
  /\ FilesIdle
  /\ ImageIdle
  /\ ParserIdle
  /\ \E v \in VisibilityInputs :
       encodeTrip = [NoTrip EXCEPT !.pc = "input", !.visibility = v]
  /\ \E c \in CodeInputs :
       decodeTrip = [NoCodeTrip EXCEPT !.pc = "input", !.code = c]

\* ------------------------------------------------------- specifications
\* the form filled in plainly: a title, a description, a ZIP and change notes
PlainForms ==
  {f \in Forms : /\ f.title = <<"T">> /\ f.description = <<"D">>
                 /\ f.changeNotes = <<"n">> /\ Truthy(f.selectedZipPath)}

\* a workshop holding at most one item, with the first id
PlainIds == {FirstItemId}
PlainLists ==
  {<<>>, <<[isNull |-> FALSE, publishedFileId |-> FirstItemId,
            visibility |-> UgcItemVisibility.Public]>>}

\* ------------------------------------------------------------ file access
\* A path is a string, kept as the sequence of its characters.
\* path.resolve(require('os').tmpdir()) and process.cwd()
tempDir == <<"/", "t">>
cwd == <<"/", "h">>
\* path.join(os.tmpdir(), 'workshop_preview_<now>.jpg')
TempOutput == tempDir \o <<"/", "w">>

\* the paths a file dialog returns
DialogPaths == {<<"/", "h", "/", "a">>, <<"/", "h", "/", "b">>}
\* the paths the renderer sends: in the working directory, in the temp
\* directory, in a directory whose name starts with the temp directory's,
\* through '..' out of the temp directory, and relative
RendererPaths ==
  {<<"/", "h", "/", "a">>, <<"/", "h", "/", "c">>, TempOutput,
   <<"/", "t", "x", "/", "a">>, <<"/", "t", "/", ".", ".", "/", "h", "/", "c">>,
   <<"a">>}

RECURSIVE SplitPath(_, _)
\* the segments of s between its '/' characters; cur is the segment being read
SplitPath(s, cur) ==
  IF s = <<>> THEN <<cur>>
  ELSE IF Head(s) = "/" THEN <<cur>> \o SplitPath(Tail(s), <<>>)
  ELSE SplitPath(Tail(s), Append(cur, Head(s)))

RECURSIVE NormalizeSegments(_, _)
\* empty and '.' segments dropped, '..' taking the segment before it
NormalizeSegments(segs, res) ==
  IF segs = <<>> THEN res
  ELSE IF Head(segs) \in {<<>>, <<".">>} THEN NormalizeSegments(Tail(segs), res)
  ELSE IF Head(segs) = <<".", ".">>
  THEN NormalizeSegments(Tail(segs), SubSeq(res, 1, Len(res) - 1))
  ELSE NormalizeSegments(Tail(segs), Append(res, Head(segs)))

RECURSIVE JoinPath(_)
JoinPath(segs) ==
  IF segs = <<>> THEN <<>> ELSE <<"/">> \o Head(segs) \o JoinPath(Tail(segs))

\* path.resolve(filePath): absolute and normalized
Resolve(filePath) ==
  Only({IF joined = <<>> THEN <<"/">> ELSE joined :
          joined \in {JoinPath(NormalizeSegments(
                         SplitPath(IF filePath # <<>> /\ Head(filePath) = "/"
                                   THEN filePath ELSE cwd \o <<"/">> \o filePath, <<>>),
                         <<>>))}})

\* String.prototype.startsWith
StartsWith(str, prefix) ==
  Len(str) >= Len(prefix) /\ SubSeq(str, 1, Len(prefix)) = prefix

\* isFilePathAllowed lines 54-62
isFilePathAllowed(filePath) ==
  IF StartsWith(Resolve(filePath), tempDir) THEN TRUE
  ELSE Resolve(filePath) \in allowedFilePaths

\* allowFilePath lines 47-51: the whitelist after the call
allowFilePath(filePath) ==
  IF Truthy(filePath) THEN allowedFilePaths \cup {Resolve(filePath)} ELSE allowedFilePaths

\* 'select-zip' and 'select-preview-image': without a window, or when the
\* dialog is cancelled, null is returned; otherwise the chosen path is
\* whitelisted and returned
SelectFile(dialog) ==
  /\ \E hasWindow \in BOOLEAN, canceled \in BOOLEAN, selectedPath \in DialogPaths :
       IF hasWindow /\ ~canceled
       THEN /\ allowedFilePaths' = allowFilePath(selectedPath)
            /\ granted' = [granted EXCEPT ![dialog] = @ \cup {selectedPath}]
       ELSE UNCHANGED <<allowedFilePaths, granted>>
  /\ UNCHANGED reading
  /\ UNCHANGED nonFileVars

SelectZip == SelectFile("zip")
SelectPreviewImage == SelectFile("image")

\* what compressPreviewImage(imagePath) returns: a failure, the input path
\* for a file within the limit, or the temp file it wrote
CompressionResults(imagePath) ==
  {[success |-> FALSE, compressedPath |-> <<>>],
   [success |-> TRUE, compressedPath |-> imagePath],
   [success |-> TRUE, compressedPath |-> TempOutput]}

\* 'compress-preview-image' lines 333-351
CompressPreviewImage ==
  /\ \E imagePath \in RendererPaths : \E result \in CompressionResults(imagePath) :
       IF result.success /\ Truthy(result.compressedPath)
       THEN /\ allowedFilePaths' = allowFilePath(result.compressedPath)
            /\ granted' = [granted EXCEPT !.compressed = @ \cup {result.compressedPath}]
       ELSE UNCHANGED <<allowedFilePaths, granted>>
  /\ UNCHANGED reading
  /\ UNCHANGED nonFileVars

\* 'read-file-base64' lines 304-330: null for a path that is not allowed or
\* does not exist, or when reading throws; otherwise the data URL
ReadFileBase64 ==
  /\ \E filePath \in RendererPaths, exists \in BOOLEAN, readThrows \in BOOLEAN :
       reading' =
         IF ~isFilePathAllowed(filePath)
         THEN [pc |-> "done", filePath |-> filePath, didRead |-> FALSE, result |-> "null"]
         ELSE IF ~exists
         THEN [pc |-> "done", filePath |-> filePath, didRead |-> FALSE, result |-> "null"]
         ELSE [pc |-> "done", filePath |-> filePath, didRead |-> TRUE,
               result |-> IF readThrows THEN "null" ELSE "data"]
  /\ UNCHANGED <<allowedFilePaths, granted>>
  /\ UNCHANGED nonFileVars

FilesNext == SelectZip \/ SelectPreviewImage \/ CompressPreviewImage \/ ReadFileBase64

\* every task and reaction of the program, with at most n invocations in
\* progress, the ModEditor form drawn from forms, the ids createItem hands out
\* from ids and the query results from lists
SteamNext(n, forms, ids, lists) ==
  \/ StartupInit(n)
  \/ RetryTimer
  \/ ResumeAfterInit
  \/ LoadWorkshopItems(n)
  \/ GetSteamStatus(n)
  \/ DeleteWorkshopItem(n)
  \/ SubmitForm(n, forms)
  \/ SubmitFormInline(n, forms)
  \/ CreateItemDone(ids)
  \/ UpdateItemDone
  \/ DeleteItemDone
  \/ ModernQueryDone(lists)
  \/ LegacyQueryDone(lists)
  \/ Settle

vars == <<steamVars, imageVars, visibilityVars, parserVars, fileVars>>
Init == SteamInit /\ ImageIdle /\ VisibilityIdle /\ ParserIdle /\ FilesIdle

\* Spec: every interleaving of up to MaxCalls invocations, on the plain form
\* and the one-item workshop
Next == SteamNext(MaxCalls, PlainForms, PlainIds, PlainLists)
Spec == Init /\ [][Next]_vars

\* SpecForm: every form and every query result, up to MaxFormCalls invocations
FormNext == SteamNext(MaxFormCalls, Forms, ItemIds, SdkItemLists)
SpecForm == Init /\ [][FormNext]_vars

\* every ModUploadData a caller of 'upload-to-workshop' can send: each field
\* present or absent, tags that split into nothing, a record without
\* visibility or with an unknown one
UploadRecords ==
  [workshopId : {<<>>, <<"1", "0">>},
   zipPath : {<<>>, <<"mod.zip">>},
   title : {<<>>, <<"T">>},
   description : {<<>>, <<"D">>},
   tags : {<<>>, <<",", " ">>, <<"a", ",", " ", "b">>},
   visibility : {"", "public", "hidden"},
   previewImagePath : {<<>>, <<"p.png">>},
   changeNotes : {<<>>, <<"n">>}]

\* 'upload-to-workshop' is invoked with a record; the renderer sends none
\* while an upload is in progress
InvokeUpload(n, records) ==
  /\ UNCHANGED nonSteamVars
  /\ CanSubmit
  /\ \E data \in records, c \in CallIds :
       /\ NextFree(c, n)
       /\ Begin(c, [FreeCall EXCEPT !.kind = "upload", !.data = data])
  /\ UNCHANGED <<startupDone, workshopItems>>

\* SpecRecord: one upload at a time, with every record
RecordNext ==
  \/ InvokeUpload(MaxFormCalls, UploadRecords)
  \/ RetryTimer
  \/ ResumeAfterInit
  \/ CreateItemDone(PlainIds)
  \/ UpdateItemDone
  \/ Settle
SpecRecord == Init /\ [][RecordNext]_vars

\* SpecImage: compressions of the picked image and of earlier outputs
SpecImage == ImageInit /\ [][ImageNext]_vars

\* SpecName: formatModName applied to every name
NameInit ==
  /\ SteamInit /\ FilesIdle /\ ImageIdle /\ VisibilityIdle
  /\ parsing = NoParsing /\ zip = NoZip
  /\ \E name \in NameInputs : naming = [NoNaming EXCEPT !.pc = "input", !.name = name]
SpecName == NameInit /\ [][FormatName]_vars

\* SpecParse: every metadata object literal, parsed in each of the five syntaxes
ParseInit ==
  /\ SteamInit /\ FilesIdle /\ ImageIdle /\ VisibilityIdle /\ naming = NoNaming /\ zip = NoZip
  /\ \E meta \in MetaInputs : parsing = [NoParsing EXCEPT !.pc = "input", !.meta = meta]
SpecParse == ParseInit /\ [][ParseModJs]_vars

\* SpecArchive: one extractModMetadata call on every archive of at most
\* MaxEntries entries
ArchiveInit ==
  /\ SteamInit /\ FilesIdle /\ ImageIdle /\ VisibilityIdle /\ naming = NoNaming /\ parsing = NoParsing
  /\ zip = [NoZip EXCEPT !.pc = "opening"]
SpecArchive == ArchiveInit /\ [][ArchiveNext]_vars
\* yauzl answers every open, readEntry and openReadStream with one of its
\* events, and a stream that was opened ends or fails
SpecArchiveFair == SpecArchive /\ WF_vars(ArchiveNext)

\* SpecFiles: every order of file dialogs, compressions and reads
SpecFiles == Init /\ [][FilesNext]_vars

\* SpecVisibility: both translations applied to every input, there and back
SpecVisibility == VisibilityInit /\ [][VisibilityNext]_vars

\* ---------------------------------------------------------------- claims
ActiveSeqs == {s \in CallIds : seqs[s].status # "none"}
AwaitingInitCalls == {c \in CallIds : calls[c].pc = "awaitInit"}
UsesEnsure(c) == calls[c].kind \in {"upload", "list", "delete"}

\* at most one doInitializeSteam sequence exists, and every call awaiting an
\* initialization awaits that one; a call that joined it started none itself
SingleFlight ==
  /\ Cardinality(ActiveSeqs) <= 1
  /\ \A c \in AwaitingInitCalls :
       /\ calls[c].seq \in ActiveSeqs
       /\ calls[c].joined => (calls[c].seq # c /\ seqs[c] = NoSeq)
       /\ ~calls[c].joined => calls[c].seq = c

\* a call that joins makes no SDK init call and changes nothing of the
\* lifecycle; a call that resumes gets the result of the sequence it awaited
SharedOutcomeStep ==
  \A c \in CallIds :
    /\ (calls[c].pc = "free" /\ calls'[c].pc = "awaitInit" /\ calls'[c].joined)
         => UNCHANGED <<steamClient, steamInitialized, initializationPromise, seqs>>
    /\ (calls[c].pc = "awaitInit" /\ calls'[c].pc # "awaitInit" /\ UsesEnsure(c))
         => (calls'[c].ensured = "initFailed" <=> ~seqs[calls[c].seq].result)

\* C1: callers that need an initialization at the same time share one
\* doInitializeSteam sequence: two sequences are never in flight, and every
\* caller that arrives while one is in flight starts no SDK init call of its
\* own and receives that sequence's outcome.
C1_SingleInitSequence == [][SingleFlight' /\ SharedOutcomeStep]_vars

\* two calls await the same sequence, the second having joined it
C1_Witness ==
  \E c, d \in CallIds :
    /\ c # d
    /\ calls[c].pc = "awaitInit" /\ calls[d].pc = "awaitInit"
    /\ calls[c].seq = c /\ calls[d].seq = c /\ calls[d].joined
    /\ seqs[c].status = "sleeping"
    /\ ~steamInitialized

ProbeAuthFailed(c) == calls[c].ensured = "probeAuthFailed"

\* the 'not logged in' error as each handler hands it to its caller
SurfacedNotLoggedIn(r) ==
  /\ r.pc = "done"
  /\ r.createCalls = 0 /\ r.updateCalls = 0 /\ r.deleteCalls = 0
  /\ r.modernCalls = 0 /\ r.legacyCalls = 0
  /\ IF r.kind = "upload"
     THEN r.result.outcome = "threw" /\ r.result.error = NotLoggedInMsg
     ELSE IF r.kind = "list"
     THEN /\ r.result.outcome = "returned" /\ r.result.items = <<>>
          /\ r.result.status = "steam_not_connected"
          /\ r.result.message = NotLoggedInMsg
     ELSE /\ r.result.outcome = "returned" /\ ~r.result.success
          /\ r.result.error = NotLoggedInMsg

\* What ensureSteamClientReady does on the case of C2: when the client is
\* Ready and the liveness probe throws an authentication error, the handler
\* surfaces the normalized 'Steam user is not logged in' failure to its caller
\* without any SDK operation; the client and steamInitialized stay as they
\* are and no initialization sequence is started.
C2_ProbeAuthFailureSurfaced ==
  [][\A c \in CallIds :
       (~ProbeAuthFailed(c) /\ ProbeAuthFailed(c)') =>
         /\ steamClient = "client" /\ steamInitialized
         /\ steamClient' = "client" /\ steamInitialized'
         /\ initializationPromise' \in {initializationPromise, 0}
         /\ \A s \in CallIds : seqs'[s] \in {seqs[s], NoSeq}
         /\ SurfacedNotLoggedIn(calls'[c])]_vars

\* a call whose probe threw the authentication error, finished
C2_Witness ==
  \E c \in CallIds :
    /\ ProbeAuthFailed(c) /\ calls[c].pc = "done"
    /\ steamClient = "client" /\ steamInitialized /\ initializationPromise = 0

\* C2: when an initialized client exists and the liveness probe of
\* ensureSteamClientReady throws an authentication error, the client is treated
\* as stale: the failure is not surfaced to the caller, the call awaits a new
\* initialization sequence instead.
C2_ProbeAuthFailureReinitializes ==
  \A c \in CallIds :
    ProbeAuthFailed(c) =>
      /\ calls[c].pc = "awaitInit"
      /\ calls[c].result.outcome = "none"
      /\ initializationPromise # 0

C5_ListAfterFailedInit ==
  [][\A c \in CallIds :
       calls[c].kind = "list" =>
         /\ calls'[c].result.outcome # "threw"
         /\ (/\ calls[c].pc = "awaitInit" /\ calls'[c].pc # "awaitInit"
             /\ ~seqs[calls[c].seq].result)
            => /\ seqs[calls[c].seq].attempt = steamInitMaxRetries
               /\ calls'[c].pc = "done"
               /\ calls'[c].result.outcome = "returned"
               /\ calls'[c].result.items = <<>>
               /\ calls'[c].result.status = "steam_not_connected"
               /\ calls'[c].result.message # <<>>
               /\ calls'[c].modernCalls = 0 /\ calls'[c].legacyCalls = 0]_vars

\* a listing that ended after the initialization failed
C5_Witness ==
  \E c \in CallIds :
    /\ calls[c].kind = "list" /\ calls[c].pc = "done"
    /\ calls[c].ensured = "initFailed"
    /\ calls[c].result.status = "steam_not_connected"
    /\ ~steamInitialized

\* C6: for an upload without workshopId, createItem is called first and
\* updateItem is called against the id createItem returned; with a workshopId,
\* createItem is not called and updateItem is called against the id that
\* workshopId writes; the publishedFileId returned is the decimal string of the
\* id updateItem was called with.
C6_CreateThenUpdate ==
  \A c \in CallIds :
    (calls[c].kind = "upload" /\ calls[c].pc # "rejected") =>
      LET r == calls[c] IN
        /\ Falsy(r.data.workshopId) =>
             /\ r.pc = "awaitCreate" => r.updateCalls = 0
             /\ r.updateCalls > 0 =>
                  (r.createCalls = 1 /\ r.createdId \in ItemIds
                   /\ r.updateTarget = r.createdId)
        /\ Truthy(r.data.workshopId) =>
             /\ r.createCalls = 0
             /\ r.updateCalls > 0 =>
                  (r.updateTarget \in ItemIds
                   /\ BigIntToString(r.updateTarget) = r.data.workshopId)
        /\ r.result.success =>
             /\ r.updateCalls = 1
             /\ r.result.publishedFileId = BigIntToString(r.updateTarget)

\* an upload of a new mod that succeeded: created, then updated
C6_Witness ==
  \E c \in CallIds :
    /\ calls[c].kind = "upload" /\ calls[c].pc = "done"
    /\ Falsy(calls[c].data.workshopId)
    /\ calls[c].result.success
    /\ calls[c].createCalls = 1 /\ calls[c].updateCalls = 1
    /\ calls[c].result.publishedFileId = BigIntToString(calls[c].createdId)

\* C7: compressPreviewImage never returns success with wasCompressed = true
\* and a compressed size above MAX_FILE_SIZE; whatever the encoder returns, a
\* call that encodes either leaves a temp file of at most MAX_FILE_SIZE bytes
\* or returns a failure and writes no file.
C7_NeverOversized ==
  img.pc = "done" =>
    /\ ~(/\ img.result.success /\ img.result.wasCompressed
         /\ img.result.compressedSize > MAX_FILE_SIZE)
    /\ img.result.success /\ img.result.wasCompressed =>
         /\ img.wrote
         /\ img.result.compressedPath = img.tempPath
         /\ files[img.tempPath] = img.result.compressedSize
    /\ img.encodes > 0 =>
         \/ img.wrote /\ files[img.tempPath] # Absent
                      /\ files[img.tempPath] <= MAX_FILE_SIZE
         \/ ~img.result.success /\ ~img.wrote

\* every quality at both scales gave an oversized buffer: a failure, no file
C7_Witness ==
  /\ img.pc = "done"
  /\ img.resized /\ img.quality < MIN_QUALITY
  /\ ~img.result.success /\ ~img.wrote
  /\ img.result.originalSize > MAX_FILE_SIZE

\* the call returned its input untouched
ReturnedUnchanged ==
  /\ img.result.success
  /\ ~img.result.wasCompressed
  /\ img.result.compressedPath = img.imagePath
  /\ img.decodes = 0 /\ img.encodes = 0 /\ ~img.wrote

\* C8: for an existing file of at most MAX_FILE_SIZE bytes (the limit
\* included) compressPreviewImage decodes and encodes nothing and returns
\* success, wasCompressed = false and the input path; so it does for the
\* compressedPath of any earlier successful compression.
C8_CompliantReturnedUnchanged ==
  img.pc = "done" =>
    /\ (img.originalSize # Absent /\ img.originalSize <= MAX_FILE_SIZE) => ReturnedUnchanged
    /\ img.wasOutput => ReturnedUnchanged

\* the temp file of an earlier compression, compressed again
C8_Witness ==
  /\ img.pc = "done"
  /\ img.wasOutput /\ img.imagePath.dir = "tmp"
  /\ img.result.success /\ img.result.compressedPath = img.imagePath

\* C9: within one upload-to-workshop invocation createItem is called at most
\* once and updateItem at most once; when either fails the invocation ends
\* with that error and calls nothing more, and nothing follows its end but the
\* delivery of the reply.
C9_NoRemoteRetry ==
  [][\A c \in CallIds :
       /\ calls'[c].createCalls <= 1 /\ calls'[c].updateCalls <= 1
       /\ (/\ calls[c].pc \in {"awaitCreate", "awaitUpdate"}
           /\ calls'[c].result.outcome = "threw")
          => /\ calls'[c].pc = "done"
             /\ calls'[c].result.error # <<>>
             /\ calls'[c].createCalls = calls[c].createCalls
             /\ calls'[c].updateCalls = calls[c].updateCalls
       /\ (calls[c].kind = "upload" /\ calls[c].pc = "done")
          => calls'[c] \in {calls[c], FreeCall}]_vars

\* updateItem failed after createItem succeeded: one call of each, the error surfaced
C9_Witness ==
  \E c \in CallIds :
    /\ calls[c].kind = "upload" /\ calls[c].pc = "done"
    /\ calls[c].result.outcome = "threw" /\ calls[c].result.error # <<>>
    /\ calls[c].createCalls = 1 /\ calls[c].updateCalls = 1

EnsureEndedInFailure(r) ==
  r.ensured \in {"initFailed", "notReady", "probeAuthFailed", "probeFailed"}

\* C10: delete-workshop-item never throws; when the client cannot be made
\* ready it returns success = false with an error and deleteItem is not
\* called; a failure always carries an error; success = true is returned only
\* by the step in which deleteItem completes.
C10_DeleteNeverThrows ==
  [][\A c \in CallIds :
       calls'[c].kind = "delete" =>
         LET r == calls'[c] IN
           /\ r.result.outcome # "threw"
           /\ r.deleteCalls <= 1
           /\ r.pc = "done" =>
                /\ r.result.outcome = "returned"
                /\ EnsureEndedInFailure(r) =>
                     (~r.result.success /\ r.result.error # <<>> /\ r.deleteCalls = 0)
                /\ ~r.result.success => r.result.error # <<>>
                /\ r.result.success =>
                     (r.ensured = "ready" /\ r.deleteCalls = 1
                      /\ calls[c].pc \in {"awaitDelete", "done"})]_vars

\* a delete that ended because the initialization had failed
C10_Witness ==
  \E c \in CallIds :
    /\ calls[c].kind = "delete" /\ calls[c].pc = "done"
    /\ calls[c].ensured = "initFailed"
    /\ ~calls[c].result.success /\ calls[c].result.error = NotConnectedMsg
    /\ calls[c].deleteCalls = 0

\* C11: the visibility translation is a bijection between public / friends /
\* private / unlisted and the four codes: translating one of the four strings
\* to its code and back gives the string, translating one of the four codes to
\* its string and back gives the code; every other or missing input gives
\* private in both directions, and only 'public' (only code 0) gives public.
C11_VisibilityBijection ==
  /\ encodeTrip.pc \in {"encoded", "done"} =>
        /\ encodeTrip.code \in UgcCodes
        /\ encodeTrip.code = UgcItemVisibility.Public <=> encodeTrip.visibility = "public"
        /\ encodeTrip.visibility \notin VisibilityStrings =>
              encodeTrip.code = UgcItemVisibility.Private
  /\ encodeTrip.pc = "done" =>
        /\ encodeTrip.visibility \in VisibilityStrings => encodeTrip.back = encodeTrip.visibility
        /\ encodeTrip.visibility \notin VisibilityStrings => encodeTrip.back = "private"
  /\ decodeTrip.pc \in {"decoded", "done"} =>
        /\ decodeTrip.visibility \in VisibilityStrings
        /\ decodeTrip.visibility = "public" <=> decodeTrip.code = UgcItemVisibility.Public
        /\ decodeTrip.code \notin UgcCodes => decodeTrip.visibility = "private"
  /\ decodeTrip.pc = "done" =>
        /\ decodeTrip.code \in UgcCodes => decodeTrip.back = decodeTrip.code
        /\ decodeTrip.code \notin UgcCodes => decodeTrip.back = UgcItemVisibility.Private

\* 'unlisted' translated there and back, and an unknown code translated
C11_Witness ==
  /\ encodeTrip.pc = "done" /\ encodeTrip.visibility = "unlisted"
  /\ encodeTrip.code = UgcItemVisibility.Unlisted /\ encodeTrip.back = "unlisted"
  /\ decodeTrip.pc = "done" /\ decodeTrip.code = MaxUgcCode
  /\ decodeTrip.visibility = "private"

\* the call resolved the current user's identity (getSteamId and getName returned)
IdentityResolved(r) == r.ensured = "ready" \/ r.result.connected

\* C12: the lifecycle is Ready (isSteamInitialized() is true) only if a
\* non-null client handle was obtained and the current user's identity was
\* resolved: a step that makes steamInitialized true leaves a client handle
\* and a call that resolved the identity.
C12_ReadyOnlyAfterIdentity ==
  [][(~steamInitialized /\ steamInitialized') =>
       /\ steamClient' = "client"
       /\ \E c \in CallIds : IdentityResolved(calls'[c])]_vars

\* the lifecycle is Ready and the identity probe of a call has just thrown
C12_Witness ==
  /\ steamInitialized /\ steamClient = "client"
  /\ \E c \in CallIds : calls[c].ensured \in {"probeAuthFailed", "probeFailed"}
  /\ \A c \in CallIds : ~IdentityResolved(calls[c])

\* C13: one initialization sequence calls the SDK's init at most
\* steamInitMaxRetries times; every attempt after the first follows a sleep
\* and no sleep follows the last attempt; the sequence ends with true at the
\* first attempt that yields a handle and otherwise ends with false after the
\* last attempt, whether the attempts returned no handle or threw.
C13_BoundedInitSequence ==
  [][\A s \in CallIds :
       LET old == seqs[s]
           new == seqs'[s]
       IN (new # old /\ new # NoSeq) =>
            /\ old.status = (IF old.attempt = 0 THEN "none" ELSE "sleeping")
            /\ new.attempt = old.attempt + 1
            /\ new.attempt <= steamInitMaxRetries
            /\ new.status \in {"sleeping", "resolved"}
            /\ new.status = "sleeping" =>
                  ~new.result /\ new.attempt < steamInitMaxRetries
            /\ new.status = "resolved" =>
                  IF new.result
                  THEN steamClient' = "client" /\ steamInitialized'
                  ELSE new.attempt = steamInitMaxRetries]_vars

\* a sequence that ended with false after its last attempt
C13_Witness ==
  \E s \in CallIds :
    /\ seqs[s].status = "resolved" /\ ~seqs[s].result
    /\ seqs[s].attempt = steamInitMaxRetries
    /\ ~steamInitialized

\* the listing of a call is the normalized form of one SDK answer
NormalizedAnswer(r) ==
  /\ r.pc = "done" /\ r.result.outcome = "returned" /\ r.result.status = "success"
  /\ \E l \in SdkItemLists :
       LET kept == FilterNonNull(l) IN
         r.result.items = [i \in 1..Len(kept) |-> ToWorkshopItem(kept[i])]

FailedListing(r) ==
  /\ r.pc = "done" /\ r.result.outcome = "returned"
  /\ r.result.status \in {"error", "steam_not_connected"} /\ r.result.items = <<>>

RECURSIVE CollapseRuns(_)
CollapseRuns(name) ==
  IF name = <<>> THEN <<>>
  ELSE IF Head(name) \in {"-", "_"}
       THEN IF Len(name) > 1 /\ name[2] \in {"-", "_"}
            THEN CollapseRuns(Tail(name))
            ELSE <<" ">> \o CollapseRuns(Tail(name))
       ELSE <<Head(name)>> \o CollapseRuns(Tail(name))

\* C18: formatModName replaces every run of one or more '-' / '_' with a
\* single space, uppercases the first letter of every resulting word and trims
\* the result; a name with consecutive separators gets exactly one space
\* between its words.
C18_RunsBecomeOneSpace ==
  naming.pc = "done" =>
    naming.title = (IF naming.name = <<>> THEN <<>>
                    ELSE Trim(CapitalizeWords(CollapseRuns(naming.name))))

\* 'a--b' formatted: two spaces between the words
C18_Witness ==
  /\ naming.pc = "done"
  /\ naming.name = <<"a", "-", "-", "b">>
  /\ naming.title = <<"A", " ", " ", "B">>

\* the passes of a loop from quality q down to MIN_QUALITY, both ends included
LoopPasses(q) == (q - MIN_QUALITY) \div QUALITY_STEP + 1
\* the count the claim gives for that loop: the ceiling of (q - MIN_QUALITY) / QUALITY_STEP
ClaimedPasses(q) == (q - MIN_QUALITY + QUALITY_STEP - 1) \div QUALITY_STEP

\* C19 with the counts of the code: every step of a compression makes one more
\* toJPEG call, and a call makes at most 34 of them, at most 18 in the first
\* quality search (95 down to 10) and at most 16 after the downscale (85 down
\* to 10); so the call ends after at most 34 encode steps.
C19_AtMost34Encodes ==
  [][/\ img'.encodes <= LoopPasses(FirstQuality) + LoopPasses(ResizedQuality)
     /\ ~img'.resized => img'.encodes <= LoopPasses(FirstQuality)
     /\ (img'.resized /\ img'.pc = "encode") =>
           /\ img'.encodes >= LoopPasses(FirstQuality)
           /\ img'.encodes < LoopPasses(FirstQuality) + LoopPasses(ResizedQuality)
     /\ (img.pc = "encode" /\ img' # img) => img'.encodes = img.encodes + 1]_vars

\* a call that failed after 18 + 16 encodings, all of them too large
C19_Witness ==
  /\ img.pc = "done" /\ ~img.result.success /\ img.resized
  /\ img.encodes = 34
  /\ LoopPasses(FirstQuality) = 18 /\ LoopPasses(ResizedQuality) = 16

\* C19: compressPreviewImage makes at most 32 toJPEG attempts per call, at
\* most ceil((95 - 10) / 5) in the first quality search and at most
\* ceil((85 - 10) / 5) in the search after the downscale.
C19_AtMost32Encodes ==
  /\ img.encodes <= ClaimedPasses(FirstQuality) + ClaimedPasses(ResizedQuality)
  /\ ~img.resized => img.encodes <= ClaimedPasses(FirstQuality)
\* the tags of a result, in order
ReturnedTags(r) == IF r.tags.kind = "arr" THEN r.tags.members ELSE <<>>

\* C17: for every mod.js text, the tags parseModJsContent returns hold every
\* tag the metadata object declares and every tag the scan of the API names
\* infers, and hold no tag twice.  (The scan is a function of the text alone.)
C17_TagsMergedOnce ==
  \A n \in 1..Len(parsing.results) :
    LET tags == ReturnedTags(parsing.results[n])
        inferred == detectTagsFromModJs(ModJs(n, parsing.meta))
        Holds(tag) == \E k \in 1..Len(tags) : tags[k] = tag
    IN /\ \A k \in 1..Len(parsing.meta.tags) : Holds(TagVal(parsing.meta.tags[k]))
       /\ \A k \in 1..Len(inferred) : Holds(inferred[k])
       /\ \A j, k \in 1..Len(tags) : tags[j] = tags[k] => j = k

\* a file that declares the tag 'a' twice and calls no API has been parsed
\* and the result holds 'a' twice
C17_Witness ==
  /\ parsing.pc = "input" /\ Len(parsing.results) >= 1
  /\ parsing.meta.tags = <<"a", "a">> /\ parsing.meta.calls = <<>>
  /\ parsing.meta.description = "none"
  /\ ReturnedTags(parsing.results[1]) = <<TagVal("a"), TagVal("a")>>

\* the values the five syntaxes are to agree on
Recovered(r) == <<r.isNull, r.name, r.title, r.version, r.description, r.author>>

\* C20: the same metadata object literal written in any of the five
\* getMetadata syntaxes gives the same name, title, version, description and
\* author.
C20_SyntaxesAgree ==
  \A m, n \in 1..Len(parsing.results) :
    Recovered(parsing.results[m]) = Recovered(parsing.results[n])

\* an object with a title and an author object nested twice has been parsed in
\* all five syntaxes; the parenthesized arrow form gave the title made from the
\* name, the function form the declared title
C20_Witness ==
  /\ Len(parsing.results) = Cardinality(Syntaxes)
  /\ parsing.meta.quote = "'" /\ parsing.meta.title /\ parsing.meta.author = 2
  /\ parsing.results[1].title = StrVal(<<"B", " ", "A">>)
  /\ parsing.results[4].title = StrVal(<<"A", " ", "B">>)

\* C15: the mod.js text and the package.json text that tryResolve extracts
\* from are those of the first entry of each kind that was read; an entry read
\* later does not replace them, and no entry whose name ends with '/' is read.
C15_FirstMatchKept ==
  /\ zip.by = "tryResolve" =>
       /\ zip.firstModJs # 0 => zip.modJsContent = zip.firstModJs
       /\ zip.firstPackageJson # 0 => zip.packageJsonContent = zip.firstPackageJson
  /\ zip.pc \in {"reading", "streaming"} => ~EndsWith(zip.entry.name, "/")

\* two mod.js entries were read, the metadata text first and the text of API
\* calls after it, and tryResolve returned what the second one gives
C15_Witness ==
  /\ zip.pc = "resolved" /\ zip.by = "tryResolve"
  /\ zip.firstModJs = 1 /\ zip.modJsContent = 2
  /\ zip.result = parseModJsContent(ModJsTexts[2])

\* what the two texts held at the end give when parsed
FromModJs ==
  IF zip.modJsContent = 0 THEN NullInfo ELSE parseModJsContent(ModJsTexts[zip.modJsContent])
FromPackageJson ==
  IF zip.packageJsonContent = 0 THEN NullInfo
  ELSE parsePackageJson(PackageJsonTexts[zip.packageJsonContent])
\* the result is the one of mod.js when that is not null, a text of API calls
\* alone gives a result, package.json is parsed only when mod.js gives none,
\* and the result is null only when neither gives one
ResolvedFromSources ==
  /\ ~FromModJs.isNull => zip.result = FromModJs
  /\ zip.modJsContent = 2 => ~zip.result.isNull
  /\ "package.json" \in zip.parsed =>
       zip.modJsContent = 0 \/ ModJsTexts[zip.modJsContent] = <<>> \/ FromModJs.isNull
  /\ zip.result.isNull => FromModJs.isNull /\ FromPackageJson.isNull

CopiedFromRecord(c) ==
  LET data == calls[c].data
      details == calls[c].details
  IN /\ details.title # <<>> => data.title = details.title
     /\ details.description # <<>> => data.description = details.description
     /\ details.hasTags => data.tags # <<>> /\ details.tags = SplitTags(data.tags, <<>>)
     /\ ~details.hasTags => details.tags = <<>>
     /\ details.contentPath # <<>> => data.zipPath = details.contentPath
     /\ details.changeNote # <<>> => data.changeNotes = details.changeNote
     /\ details.previewPath # <<>> =>
          data.previewImagePath = details.previewPath /\ calls[c].previewExists
\* the calls whose update descriptor has been built
BuiltDetails == {c \in CallIds : calls[c].details # NoDetails}

\* C21: the update descriptor holds a title, a description, tags, a content
\* path or a change note only if the record holds that field, and a preview
\* path only if the record holds one and the file exists; the visibility is
\* always set, to the code of the record's visibility, or to Private when the
\* record has none or an unknown one.
C21_DescriptorFromRecord ==
  \A c \in BuiltDetails :
    /\ CopiedFromRecord(c)
    /\ calls[c].details.visibility =
         (IF calls[c].data.visibility = "public" THEN UgcItemVisibility.Public
          ELSE UgcItemVisibility.Private)

\* an update of an existing item that changes the title alone has reached
\* updateItem: the descriptor holds the title, and the Private visibility
\* the record did not ask for
C21_Witness ==
  \E c \in CallIds :
    /\ calls[c].pc = "awaitUpdate"
    /\ calls[c].data = [NoData EXCEPT !.workshopId = <<"1", "0">>, !.title = <<"T">>]
    /\ calls[c].details = [NoDetails EXCEPT !.title = <<"T">>,
                                             !.visibility = UgcItemVisibility.Private]

\* C21 as stated: every field of the descriptor, the visibility too, is
\* there only if the record holds it
C21_OnlyFieldsOfRecord ==
  \A c \in BuiltDetails :
    /\ CopiedFromRecord(c)
    /\ calls[c].details.visibility # NoDetails.visibility => calls[c].data.visibility # ""

\* C22: activateToWebPage is called at most once per upload and only in the
\* step in which updateItem succeeded; whether it returns or throws, that
\* step ends the upload with success = true and the publishedFileId the
\* upload had before the overlay was asked.
C22_OverlayCannotFail ==
  [][\A c \in CallIds :
       calls'[c].overlayCalls > calls[c].overlayCalls =>
         /\ calls[c].kind = "upload" /\ calls[c].pc = "awaitUpdate"
         /\ calls[c].updateCalls = 1 /\ calls[c].overlayCalls = 0
         /\ calls'[c].overlayCalls = 1
         /\ calls'[c].sdkErrors = <<>>
         /\ calls'[c].pc = "done"
         /\ calls'[c].result.outcome = "returned"
         /\ calls'[c].result.success
         /\ calls'[c].result.error = <<>>
         /\ calls'[c].result.publishedFileId = calls[c].publishedFileId
         /\ calls[c].publishedFileId # <<>>]_vars

\* an upload whose overlay request threw and which returned success
C22_Witness ==
  \E c \in CallIds :
    /\ calls[c].kind = "upload" /\ calls[c].pc = "done"
    /\ calls[c].overlayCalls = 1 /\ calls[c].overlayThrew
    /\ calls[c].result.outcome = "returned" /\ calls[c].result.success
    /\ calls[c].result.publishedFileId = calls[c].publishedFileId

\* the reply of the not-signed-in class, as each handler gives it
NotSignedInReply(r) ==
  CASE r.kind = "upload" ->
         r.result.outcome = "threw" /\ r.result.error = NotLoggedInMsg
    [] r.kind = "list" ->
         /\ r.result.outcome = "returned"
         /\ r.result.status = "steam_not_connected"
         /\ r.result.message = NotLoggedInMsg
    [] OTHER ->
         /\ r.result.outcome = "returned" /\ ~r.result.success
         /\ r.result.error = NotLoggedInMsg

AuthFailureSeen(r) ==
  \E i \in DOMAIN r.sdkErrors : isSteamAuthError(r.sdkErrors[i])

\* C23: a finished upload, list or delete one of whose SDK calls was rejected
\* with an authentication message gave its caller the not-signed-in reply,
\* also when the rejected call was the first of the two list queries.
C23_AuthFailureSurfaced ==
  \A c \in CallIds :
    (calls[c].pc = "done" /\ AuthFailureSeen(calls[c])) => NotSignedInReply(calls[c])

\* a listing whose first query was rejected with the authentication message
\* and whose second query was rejected with another one: status 'error'
C23_Witness ==
  \E c \in CallIds :
    /\ calls[c].kind = "list" /\ calls[c].pc = "done"
    /\ calls[c].sdkErrors = <<SdkAuthError, SdkOtherError>>
    /\ calls[c].result.status = "error"
    /\ calls[c].result.message = ApiUnavailableMsg

\* the i-th toJPEG call of the claim's two sequences: 95, 90, ..., 10 on the
\* image, then 85, 80, ..., 10 on the image downscaled by 0.7
ClaimedQuality(i) == IF i <= 18 THEN 100 - 5 * i ELSE 90 - 5 * (i - 18)

\* C24: when compressPreviewImage returns success with wasCompressed = true,
\* the encodings it made follow 95, 90, ..., 10 on the image and then
\* 85, 80, ..., 10 on the image downscaled once more; every encoding but the
\* last was over MAX_FILE_SIZE and the last one fits; the reported quality is
\* the quality of that last encoding, between 10 and 95, and the file written
\* holds the bytes of that encoding.
C24_FirstFittingQuality ==
  (img.pc = "done" /\ img.result.success /\ img.result.wasCompressed) =>
    LET n == Len(img.tried) IN
      /\ n \in 1..34
      /\ \A i \in 1..n :
           /\ img.tried[i].resized = (i > 18)
           /\ img.tried[i].quality = ClaimedQuality(i)
           /\ img.tried[i].fits = (i = n)
      /\ img.result.quality = img.tried[n].quality
      /\ img.result.quality \in 10..95
      /\ img.bufferLength <= 1048576
      /\ img.result.compressedSize = img.bufferLength
      /\ files[img.result.compressedPath] = img.bufferLength

\* no quality fitted on the image, and the first one tried on the downscaled
\* image did: quality 85 after 19 encodings
C24_Witness ==
  /\ img.pc = "done" /\ img.result.success /\ img.result.wasCompressed
  /\ img.resized /\ Len(img.tried) = 19
  /\ img.result.quality = 85
  /\ img.tried[18] = [resized |-> FALSE, quality |-> 10, fits |-> FALSE]

\* C25: an initialization sequence sends 'steam-initialized' only in the
\* attempt in which init() gave a handle, once, and exactly when that attempt
\* found a window that is not destroyed; the sequence then ends with true and
\* the lifecycle is Ready; a sequence whose attempts all failed ends with
\* false having sent nothing.
C25_NotifiedOnceOnSuccess ==
  [][\A s \in CallIds :
       LET old == seqs[s]
           new == seqs'[s]
       IN (new # old /\ new # NoSeq) =>
            /\ new.notifications \in {old.notifications, old.notifications + 1}
            /\ old.notifications = 0 /\ ~old.result
            /\ new.result =>
                 /\ new.status = "resolved"
                 /\ steamClient' = "client" /\ steamInitialized'
                 /\ new.notifications = (IF new.sawWindow THEN 1 ELSE 0)
            /\ ~new.result =>
                 /\ new.notifications = 0
                 /\ new.status = "resolved" => new.attempt = steamInitMaxRetries]_vars

\* a sequence that obtained the handle on a retry, with a window: one
\* notification, result true
C25_Witness ==
  \E s \in CallIds :
    /\ seqs[s].status = "resolved" /\ seqs[s].result
    /\ seqs[s].attempt > 1
    /\ seqs[s].sawWindow /\ seqs[s].notifications = 1

\* C26: in every state, steamInitialized = true implies that steamClient is
\* not null.
C26_InitializedHasClient == steamInitialized => steamClient # "null"

\* Ready by the flag, with the handle overwritten by a later init() that
\* returned null, while the sequence that made that call sleeps before its retry
C26_Witness ==
  /\ steamInitialized /\ steamClient = "null"
  /\ \E s \in CallIds : seqs[s].status = "sleeping" /\ ~seqs[s].result

\* an attempt of doInitializeSteam, and so a call of the SDK's init, is made
\* in this step
InitCalled == \E s \in CallIds : seqs'[s] # NoSeq /\ seqs'[s].attempt # seqs[s].attempt

\* C27: once steamInitialized is true, no step calls the SDK's init again.
C27_NoInitAfterSuccess == [][steamInitialized => ~InitCalled]_vars

\* the start-up initialization ran after a request had already made the
\* lifecycle Ready, and obtained a handle again: a second notification
C27_Witness ==
  \E s \in CallIds :
    /\ calls[s].kind = "startup" /\ calls[s].seq = s
    /\ seqs[s].status = "resolved" /\ seqs[s].result /\ seqs[s].attempt = 1
    /\ \E c \in CallIds :
         /\ c # s /\ calls[c].kind \notin {"free", "startup"}
         /\ calls[c].ensured = "ready"

\* the workshop SDK calls a request has made
SdkCalls(r) == r.createCalls + r.updateCalls + r.deleteCalls + r.modernCalls + r.legacyCalls

\* C28: a request makes a workshop SDK call (createItem, updateItem,
\* deleteItem, getUserItems) only if it is an upload, list or delete whose
\* ensureSteamClientReady has passed; ensureSteamClientReady passes only in a
\* step that starts with a non-null client and steamInitialized = true and in
\* which the identity probe does not throw, before any SDK call of the request.
C28_SdkCallsOnlyAfterEnsure ==
  [][\A c \in CallIds :
       /\ SdkCalls(calls'[c]) > SdkCalls(calls[c]) =>
            /\ calls'[c].kind \in {"upload", "list", "delete"}
            /\ calls'[c].ensured = "ready"
       /\ (calls'[c].ensured = "ready" /\ calls[c].ensured # "ready") =>
            /\ steamClient = "client" /\ steamInitialized
            /\ calls[c].ensured = "none"
            /\ SdkCalls(calls[c]) = 0]_vars

\* a listing that waited for the initialization, passed the probe and has
\* made both of its getUserItems calls
C28_Witness ==
  \E c \in CallIds :
    /\ calls[c].kind = "list" /\ calls[c].pc = "awaitLegacy"
    /\ calls[c].ensured = "ready"
    /\ calls[c].modernCalls = 1 /\ calls[c].legacyCalls = 1
    /\ startupDone

\* the path lies inside the temp directory
InsideTempDir(resolvedPath) ==
  resolvedPath = tempDir \/ StartsWith(resolvedPath, tempDir \o <<"/">>)

\* the paths the claim lets read-file-base64 read: returned by a dialog, put
\* out by a successful compression, or inside the temp directory
PermittedToRead(filePath) ==
  \/ Resolve(filePath) \in {Resolve(q) : q \in granted.zip \cup granted.image \cup granted.compressed}
  \/ InsideTempDir(Resolve(filePath))

\* C29: read-file-base64 returns null, without reading the file, for every
\* path that was not returned by select-zip or select-preview-image, is not
\* the output path of a successful compress-preview-image and does not lie
\* inside the temp directory.
C29_ReadsOnlyPermittedPaths ==
  (reading.pc = "done" /\ ~PermittedToRead(reading.filePath)) =>
    (reading.result = "null" /\ ~reading.didRead)

\* with an empty whitelist, a file in a directory whose name only starts with
\* the temp directory's name was read and returned
C29_Witness ==
  /\ reading.pc = "done"
  /\ reading.filePath = <<"/", "t", "x", "/", "a">>
  /\ allowedFilePaths = {} /\ granted = NoGrants
  /\ reading.didRead /\ reading.result = "data"

\* C30: the promise extractModMetadata returns is eventually resolved,
\* pendingReads is never negative, and tryResolve computes the result only
\* when pendingReads is zero.
C30_AlwaysResolves ==
  /\ <>(zip.pc = "resolved")
  /\ [](zip.pendingReads >= 0)
  /\ []((zip.pc = "resolved" /\ zip.by = "tryResolve") => zip.pendingReads = 0)

\* the archive's 'end' handler ran tryResolve with no read pending and
\* parseModJsContent threw on the mod.js text: nothing is resolved
C30_Witness ==
  /\ zip.pc = "crashed" /\ zip.by = "none"
  /\ zip.pendingReads = 0
  /\ HasText(zip.modJsContent, ModJsTexts)
  /\ parseModJsContent(ModJsTexts[zip.modJsContent]).threw

====
